---- MODULE Spec2Model ----
(***************************************************************************)
(* The PMI sentiment pipeline of run_pmi_reddit.py as a state machine.     *)
(*                                                                         *)
(* A string is a sequence of one-character strings, a token is such a      *)
(* sequence, a DataFrame whose row order the script depends on is a        *)
(* sequence of rows and a grouped DataFrame (whose row order Spark leaves  *)
(* unspecified) is a set of rows.  A double column holds an IEEE 754       *)
(* binary64 value [s, e, m], of value (-1)^s * m * 2^(e - 52), computed    *)
(* with round to nearest even as Spark computes it on the JVM.             *)
(***************************************************************************)
EXTENDS Integers, Sequences, FiniteSets, TLC

VARIABLES
    df,               \* rows of data/reddit_posts.csv: the comment column
    pc,               \* the section of the script that runs next
    run,              \* "first" or "second" execution of the script
    df_clean,         \* comments that are not null and longer than 20
    tokens,           \* per kept comment, the tokens column of df_text
    clean_tokens,     \* per kept comment, the clean_tokens column of result
    clean_words_df,   \* the exploded, filtered token stream
    total_tokens,
    word_counts,
    pos_counts,
    neg_counts,
    total_pos,
    total_neg,
    pmi_df,
    pmi_filtered,
    top_pos,
    top_neg,
    csv_positive,     \* results/pmi/reddit_pmi_positive.csv
    csv_negative,     \* results/pmi/reddit_pmi_negative.csv
    csv_word_freq,    \* results/pmi/reddit_word_freq.csv
    prev_positive,    \* the three files as the previous execution left them
    prev_negative,
    prev_word_freq,
    shards,           \* the corpus split into shards, each a list of comments
    partial,          \* per shard, the partial count tables of its tokens
    merged,           \* the shards whose partial tables have been merged, in merge order
    acc,              \* the tables merged so far
    rq_pc,            \* where a call of make_request stands
    rq_delay_range,   \* its delay_range argument
    retry_count,      \* its retry_count argument, in the innermost call
    rq_events,        \* the sleeps and HTTP requests it has made, in order
    rq_result,        \* what the outermost call returned
    st_pc,            \* where a call of fetch_reviews_api stands
    cursor,           \* the cursor sent with the next request
    all_reviews,      \* the rows accumulated so far
    page,             \* the number of the page being fetched
    attempt,          \* the attempt of the retry loop, from 0
    data,             \* the last body that was parsed
    st_total,         \* how many reviews the server holds
    st_served,        \* how many of them it has sent in answered pages
    st_requests,      \* per page, the requests made for it
    st_failures,      \* the failed requests since the last answered one
    sc_pc,            \* where a call of scrape_youtube_comments stands
    max_scroll,       \* its max_scroll argument
    scrolls,          \* the scrolls performed, i + 1 after the scroll of index i
    last_len,
    stagnant,
    comments_len,     \* len(comments) as the latest scroll observed it
    sc_same,          \* the latest scrolls in a row that observed the number of the scroll before
    sc_stop,          \* how the loop ended: "break" or "exhausted"
    rd_pc,            \* where main of reddit_scraper_no_api.py stands or waits
    rd_posts,         \* the posts of the search result still to be handled
    rd_seen,          \* the posts handled, each with the comments that were fetched
    all_results,
    csv_reddit        \* ../data/reddit_posts.csv

\* The state of run_pmi_reddit.py.
pmiVars == <<df, pc, run, df_clean, tokens, clean_tokens, clean_words_df,
          total_tokens, word_counts, pos_counts, neg_counts, total_pos,
          total_neg, pmi_df, pmi_filtered, top_pos, top_neg, csv_positive,
          csv_negative, csv_word_freq, prev_positive, prev_negative,
          prev_word_freq>>

\* The state of a sharded build of the count tables.
shardVars == <<shards, partial, merged, acc>>

\* The state of a call of make_request of reddit_scraper_no_api.py.
requestVars == <<rq_pc, rq_delay_range, retry_count, rq_events, rq_result>>

\* The state of a call of fetch_reviews_api of scraping_steam.py.
steamVars == <<st_pc, cursor, all_reviews, page, attempt, data, st_total,
               st_served, st_requests, st_failures>>

\* The state of the other scrapers.
scrollVars == <<sc_pc, max_scroll, scrolls, last_len, stagnant, comments_len,
                sc_same, sc_stop>>

\* The state of main of reddit_scraper_no_api.py.
redditVars == <<rd_pc, rd_posts, rd_seen, all_results, csv_reddit>>

scraperVars == <<steamVars, scrollVars, redditVars>>

vars == <<pmiVars, shardVars, requestVars, scraperVars>>

----------------------------------------------------------------------------
(* Characters and the fixed word lists                                     *)

LowerLetters == {"a", "b", "c", "d", "e", "f", "g", "h", "i", "j", "k", "l", "m", "n", "o", "p", "q", "r", "s", "t", "u", "v", "w", "x", "y", "z"}
UpperLetters == {"A", "B", "C", "D", "E", "F", "G", "H", "I", "J", "K", "L", "M", "N", "O", "P", "Q", "R", "S", "T", "U", "V", "W", "X", "Y", "Z"}
Letters == LowerLetters \cup UpperLetters

\* A character that a string of this module cannot hold is written by its
\* code point, as the vertical tab "U+000B".
\* The characters the Java regex class \s matches: [ \t\n\x0B\f\r].
Whitespace == {" ", "\t", "\n", "U+000B", "\f", "\r"}

ToLowerChar(c) ==
    CASE c = "A" -> "a"
      [] c = "B" -> "b"
      [] c = "C" -> "c"
      [] c = "D" -> "d"
      [] c = "E" -> "e"
      [] c = "F" -> "f"
      [] c = "G" -> "g"
      [] c = "H" -> "h"
      [] c = "I" -> "i"
      [] c = "J" -> "j"
      [] c = "K" -> "k"
      [] c = "L" -> "l"
      [] c = "M" -> "m"
      [] c = "N" -> "n"
      [] c = "O" -> "o"
      [] c = "P" -> "p"
      [] c = "Q" -> "q"
      [] c = "R" -> "r"
      [] c = "S" -> "s"
      [] c = "T" -> "t"
      [] c = "U" -> "u"
      [] c = "V" -> "v"
      [] c = "W" -> "w"
      [] c = "X" -> "x"
      [] c = "Y" -> "y"
      [] c = "Z" -> "z"
      [] OTHER -> c

custom_noise_words ==
    { <<"i","m">>, <<"i","v","e">>, <<"d","o","n","t">>, <<"d","i","d","n","t">>,
      <<"t","h","a","t","s">>, <<"t","h","e","r","e","s">>, <<"c","a","n","t">>, <<"d","o","e","s","n","t">>,
      <<"a","l","s","o">>, <<"r","e","a","l","l","y">>, <<"m","u","c","h">>, <<"m","a","n","y">>,
      <<"o","n","e">>, <<"e","v","e","n">>, <<"s","t","i","l","l">>, <<"l","o","t">>,
      <<"w","a","y">>, <<"g","o","t">>, <<"g","e","t">>, <<"g","o","i","n","g">>,
      <<"g","o">>, <<"s","a","y">>, <<"s","e","e">>, <<"k","n","o","w">>,
      <<"t","h","i","n","k">>, <<>>, <<"w","o","u","l","d">>, <<"c","o","u","l","d">>,
      <<"j","u","s","t">>, <<"l","i","k","e">>, <<"g","a","m","e">>, <<"g","a","m","e","s">>,
      <<"p","l","a","y">>, <<"p","l","a","y","e","d">>, <<"p","l","a","y","i","n","g">>, <<"i","t","s">>,
      <<"t","h","a","t","s">>, <<"y","o","u","r","e">>, <<"t","h","e","y","r","e">>, <<"w","e","v","e">> }

positive_words ==
    { <<"g","o","o","d">>, <<"g","r","e","a","t">>, <<"l","o","v","e">>, <<"a","m","a","z","i","n","g">>,
      <<"f","u","n">>, <<"b","e","s","t">>, <<"b","e","t","t","e","r">>, <<"a","w","e","s","o","m","e">>,
      <<"e","x","c","e","l","l","e","n","t">>, <<"b","e","a","u","t","i","f","u","l">>, <<"p","e","r","f","e","c","t">>, <<"i","n","c","r","e","d","i","b","l","e">>,
      <<"f","a","n","t","a","s","t","i","c">>, <<"w","o","n","d","e","r","f","u","l">>, <<"e","n","j","o","y">>, <<"e","n","j","o","y","e","d">> }

negative_words ==
    { <<"b","a","d">>, <<"t","e","r","r","i","b","l","e">>, <<"a","w","f","u","l">>, <<"w","o","r","s","t">>,
      <<"b","o","r","i","n","g">>, <<"h","a","t","e">>, <<"i","s","s","u","e">>, <<"p","r","o","b","l","e","m">>,
      <<"d","i","s","a","p","p","o","i","n","t","i","n","g">>, <<"b","r","o","k","e","n">>, <<"b","u","g">>, <<"b","u","g","s">>,
      <<"g","l","i","t","c","h">>, <<"c","r","a","s","h">>, <<"f","r","u","s","t","r","a","t","i","n","g">>, <<"r","e","p","e","t","i","t","i","v","e">> }

ambiguous_words ==
    { <<"n","e","v","e","r">>, <<"s","i","n","c","e">>, <<"t","h","i","n","k">>, <<"g","o","i","n","g">>,
      <<"w","a","y">>, <<"s","a","y">>, <<"s","o","m","e","t","h","i","n","g">>, <<"p","u","t">>,
      <<"a","c","t","u","a","l","l","y">>, <<"s","t","i","l","l">>, <<"s","e","e">>, <<"o","d","y","s","s","e","y">>,
      <<"s","h","a","d","o","w","s">>, <<"a","s","s","a","s","s","i","n">>, <<"c","r","e","e","d">>, <<"u","n","d","e","r","s","t","a","n","d">>,
      <<"b","u","y">>, <<"j","a","p","a","n","e","s","e">>, <<"t","h","i","n","g">>, <<"v","i","d","e","o">>,
      <<"c","h","a","n","n","e","l">>, <<"m","i","s","s","i","o","n","s">>, <<"m","u","c","h">>, <<"w","a","n","t">>,
      <<"k","n","o","w">>, <<"p","e","o","p","l","e">>, <<"u","b","i","s","o","f","t">>, <<"n","a","o","e">>,
      <<"y","a","s","u","k","e">>, <<"t","i","m","e">>, <<"f","i","r","s","t">>, <<"n","e","w">>,
      <<"w","o","r","l","d">>, <<"f","e","e","l">>, <<"c","o","m","b","a","t">>, <<"s","t","e","a","l","t","h">>,
      <<"s","e","r","i","e","s">>, <<"m","a","k","e">>, <<"w","e","l","l">>, <<"m","a","i","n">>,
      <<"h","o","u","r","s">>, <<"f","e","e","l","s">>, <<"b","a","c","k">>, <<"j","a","p","a","n">>,
      <<"s","t","o","r","y">>, <<"c","h","a","r","a","c","t","e","r">>, <<"c","h","a","r","a","c","t","e","r","s">>, <<"g","r","a","p","h","i","c","s">>,
      <<"g","a","m","e","p","l","a","y">> }

\* The alphabetic entries of the default English list of StopWordsRemover
\* (the entries with an apostrophe never match a token of letters).
EnglishStopWords ==
    { <<"i">>, <<"m","e">>, <<"m","y">>, <<"m","y","s","e","l","f">>, <<"w","e">>, <<"o","u","r">>,
      <<"o","u","r","s">>, <<"o","u","r","s","e","l","v","e","s">>, <<"y","o","u">>, <<"y","o","u","r">>, <<"y","o","u","r","s">>, <<"y","o","u","r","s","e","l","f">>,
      <<"y","o","u","r","s","e","l","v","e","s">>, <<"h","e">>, <<"h","i","m">>, <<"h","i","s">>, <<"h","i","m","s","e","l","f">>, <<"s","h","e">>,
      <<"h","e","r">>, <<"h","e","r","s">>, <<"h","e","r","s","e","l","f">>, <<"i","t">>, <<"i","t","s">>, <<"i","t","s","e","l","f">>,
      <<"t","h","e","y">>, <<"t","h","e","m">>, <<"t","h","e","i","r">>, <<"t","h","e","i","r","s">>, <<"t","h","e","m","s","e","l","v","e","s">>, <<"w","h","a","t">>,
      <<"w","h","i","c","h">>, <<"w","h","o">>, <<"w","h","o","m">>, <<"t","h","i","s">>, <<"t","h","a","t">>, <<"t","h","e","s","e">>,
      <<"t","h","o","s","e">>, <<"a","m">>, <<"i","s">>, <<"a","r","e">>, <<"w","a","s">>, <<"w","e","r","e">>,
      <<"b","e">>, <<"b","e","e","n">>, <<"b","e","i","n","g">>, <<"h","a","v","e">>, <<"h","a","s">>, <<"h","a","d">>,
      <<"h","a","v","i","n","g">>, <<"d","o">>, <<"d","o","e","s">>, <<"d","i","d">>, <<"d","o","i","n","g">>, <<"a">>,
      <<"a","n">>, <<"t","h","e">>, <<"a","n","d">>, <<"b","u","t">>, <<"i","f">>, <<"o","r">>,
      <<"b","e","c","a","u","s","e">>, <<"a","s">>, <<"u","n","t","i","l">>, <<"w","h","i","l","e">>, <<"o","f">>, <<"a","t">>,
      <<"b","y">>, <<"f","o","r">>, <<"w","i","t","h">>, <<"a","b","o","u","t">>, <<"a","g","a","i","n","s","t">>, <<"b","e","t","w","e","e","n">>,
      <<"i","n","t","o">>, <<"t","h","r","o","u","g","h">>, <<"d","u","r","i","n","g">>, <<"b","e","f","o","r","e">>, <<"a","f","t","e","r">>, <<"a","b","o","v","e">>,
      <<"b","e","l","o","w">>, <<"t","o">>, <<"f","r","o","m">>, <<"u","p">>, <<"d","o","w","n">>, <<"i","n">>,
      <<"o","u","t">>, <<"o","n">>, <<"o","f","f">>, <<"o","v","e","r">>, <<"u","n","d","e","r">>, <<"a","g","a","i","n">>,
      <<"f","u","r","t","h","e","r">>, <<"t","h","e","n">>, <<"o","n","c","e">>, <<"h","e","r","e">>, <<"t","h","e","r","e">>, <<"w","h","e","n">>,
      <<"w","h","e","r","e">>, <<"w","h","y">>, <<"h","o","w">>, <<"a","l","l">>, <<"a","n","y">>, <<"b","o","t","h">>,
      <<"e","a","c","h">>, <<"f","e","w">>, <<"m","o","r","e">>, <<"m","o","s","t">>, <<"o","t","h","e","r">>, <<"s","o","m","e">>,
      <<"s","u","c","h">>, <<"n","o">>, <<"n","o","r">>, <<"n","o","t">>, <<"o","n","l","y">>, <<"o","w","n">>,
      <<"s","a","m","e">>, <<"s","o">>, <<"t","h","a","n">>, <<"t","o","o">>, <<"v","e","r","y">>, <<"s">>,
      <<"t">>, <<"c","a","n">>, <<"w","i","l","l">>, <<"j","u","s","t">>, <<"d","o","n">>, <<"s","h","o","u","l","d">>,
      <<"n","o","w">>, <<"c","a","n","n","o","t">>, <<"c","o","u","l","d">>, <<"o","u","g","h","t">>, <<"w","o","u","l","d">> }

----------------------------------------------------------------------------
(* Column functions of pyspark.sql.functions, as the script uses them      *)

\* A null comment: a value that is no string (its element is no character).
NULL == <<"NULL">>

Min(S) == CHOOSE x \in S : \A y \in S : x <= y
Max(S) == CHOOSE x \in S : \A y \in S : x >= y

\* length(col)
Length(s) == Len(s)

\* lower(col)
Lower(s) == [i \in 1..Len(s) |-> ToLowerChar(s[i])]

\* regexp_replace(col, "[^a-zA-Z\\s]", " "): every character that is neither
\* an ASCII letter nor whitespace becomes one space.
RegexpReplaceNonAlpha(s) ==
    [i \in 1..Len(s) |-> IF s[i] \in Letters \cup Whitespace THEN s[i] ELSE " "]

\* trim(col): strips the space character (only) from both ends.
Trim(s) ==
    LET keep == {i \in 1..Len(s) : s[i] # " "}
    IN  IF keep = {} THEN <<>> ELSE SubSeq(s, Min(keep), Max(keep))

\* split(col, "\\s+"): the pieces between maximal runs of whitespace, the
\* empty pieces at either end included (limit -1).
SplitWhitespace(s) ==
    LET n      == Len(s)
        starts == {i \in 1..n : s[i] \notin Whitespace
                                /\ (i = 1 \/ s[i-1] \in Whitespace)}
        EndOf(i) == Min({j \in i..n : j = n \/ s[j+1] \in Whitespace})
        Nth(k) == CHOOSE i \in starts : Cardinality({j \in starts : j < i}) = k - 1
        pieces == [k \in 1..Cardinality(starts) |-> SubSeq(s, Nth(k), EndOf(Nth(k)))]
        lead   == IF n > 0 /\ s[1] \in Whitespace THEN << <<>> >> ELSE <<>>
        trail  == IF n > 0 /\ s[n] \in Whitespace THEN << <<>> >> ELSE <<>>
    IN  IF n = 0 THEN << <<>> >> ELSE lead \o pieces \o trail

\* col.rlike(pat) for a pattern of plain letters: pat occurs in w.
Rlike(w, pat) ==
    \E i \in 1..(Len(w) - Len(pat) + 1) : SubSeq(w, i, i + Len(pat) - 1) = pat

\* explode(col): the elements of every array, row after row.
RECURSIVE Explode(_)
Explode(arrays) ==
    IF arrays = <<>> THEN <<>> ELSE Head(arrays) \o Explode(Tail(arrays))
\* Variant: a word counts once however often it occurs.
GroupCount_Presence(words) ==
    { [word |-> w, count |-> 1] : w \in {words[i] : i \in 1..Len(words)} }

\* groupBy("word").count(): one row per distinct word, in no defined order.
GroupCount(words) ==
    { [word |-> w, count |-> Cardinality({i \in 1..Len(words) : words[i] = w})] :
        w \in {words[i] : i \in 1..Len(words)} }

----------------------------------------------------------------------------
(* The sections of the script up to the token stream                       *)

\* df_clean: comment is not null and longer than 20 characters.
MinCommentLength == 20
\* Variant: df_clean without the length filter.
KeepComment_NoLength(c) == c # NULL

KeepComment(c) == c # NULL /\ Length(c) > MinCommentLength

CleanComments(rows) == SelectSeq(rows, KeepComment)
\* Variant: the text column without lower().
TextOf_NoLower(comment) == RegexpReplaceNonAlpha(comment)

\* df_text: the text column, then the tokens column.
TextOf(comment) == Lower(RegexpReplaceNonAlpha(comment))

TokensOf(comment) == SplitWhitespace(Trim(TextOf(comment)))

\* StopWordsRemover.transform (caseSensitive = False).
IsNotStopWord(w) == Lower(w) \notin EnglishStopWords

RemoveStopWords(toks) == SelectSeq(toks, IsNotStopWord)

MinWordLength == 2

\* The filters of clean_words_df.
KeepWord(w) ==
    /\ w \notin custom_noise_words
    /\ Length(w) > MinWordLength
    /\ ~Rlike(w, <<"h","t","t","p">>)
    /\ ~Rlike(w, <<"w","w","w">>)
    /\ ~Rlike(w, <<"h","t","t","p","s">>)

CleanWords(arrays) == SelectSeq(Explode(arrays), KeepWord)

----------------------------------------------------------------------------
(* The arithmetic of the double columns                                    *)

\* A null of an integer column or of a Python int (None).
NullInt == -1

\* A natural number is held as its digits to the base 2^14, the lowest first.
BitsPerLimb == 14

Base == 2^BitsPerLimb

\* r, with the values of vs worked out first, in their order.
After(vs, r) == IF vs = vs THEN r ELSE r

\* The sequence f with its elements worked out.
Tuple(f) == f \o <<>>

At(x, i) == IF i \in 1..Len(x) THEN x[i] ELSE 0

RECURSIVE Carry(_, _, _)
Carry(x, i, c) ==
    IF i > Len(x) /\ c = 0 THEN <<>>
    ELSE LET t == At(x, i) + c
         IN  <<t % Base>> \o Carry(x, i + 1, t \div Base)

AddNat(x, y) ==
    Carry(Tuple([i \in 1..(IF Len(x) > Len(y) THEN Len(x) ELSE Len(y)) |-> At(x, i) + At(y, i)]), 1, 0)

\* x - y for x >= y
SubNat(x, y) == Carry(Tuple([i \in 1..Len(x) |-> x[i] - At(y, i)]), 1, 0)

RECURSIVE Column(_, _, _, _)
Column(x, y, k, i) ==
    IF i > Len(x) \/ i > k THEN 0
    ELSE (IF k + 1 - i <= Len(y) THEN x[i] * y[k + 1 - i] ELSE 0) + Column(x, y, k, i + 1)

MulNat(x, y) ==
    IF x = <<>> \/ y = <<>> THEN <<>>
    ELSE Carry(Tuple([k \in 1..(Len(x) + Len(y) - 1) |-> Column(x, y, k, 1)]), 1, 0)

RECURSIVE LessFrom(_, _, _)
LessFrom(x, y, i) ==
    IF i = 0 THEN FALSE
    ELSE IF At(x, i) # At(y, i) THEN At(x, i) < At(y, i)
    ELSE LessFrom(x, y, i - 1)

NatLess(x, y) == LessFrom(x, y, IF Len(x) > Len(y) THEN Len(x) ELSE Len(y))

IsZeroNat(x) == \A i \in 1..Len(x) : x[i] = 0

\* The number of bits of x, whose highest limb that is not 0 is limb t.
BitsUpTo(x, t) ==
    IF t = 0 THEN 0
    ELSE BitsPerLimb * (t - 1)
             + (CHOOSE b \in 1..BitsPerLimb : 2^(b - 1) <= x[t] /\ x[t] < 2^b)

\* The number of bits of x: 0 for 0.
BitLength(x) == BitsUpTo(x, Max({0} \cup {i \in 1..Len(x) : x[i] # 0}))

ShiftLeft(x, s) ==
    LET q == s \div BitsPerLimb
        r == s % BitsPerLimb
    IN  Tuple([i \in 1..(Len(x) + q + 1) |->
                  (At(x, i - q) % 2^(BitsPerLimb - r)) * 2^r
                    + (At(x, i - q - 1) \div 2^(BitsPerLimb - r))])

ShiftRight(x, s) ==
    LET q == s \div BitsPerLimb
        r == s % BitsPerLimb
    IN  Tuple([i \in 1..(IF Len(x) > q THEN Len(x) - q ELSE 0) |->
                  (At(x, i + q) \div 2^r) + (At(x, i + q + 1) % 2^r) * 2^(BitsPerLimb - r)])

\* Some bit that ShiftRight(x, s) drops is set.
DropsBits(x, s) ==
    LET q == s \div BitsPerLimb
        r == s % BitsPerLimb
    IN  \/ \E i \in 1..q : At(x, i) # 0
        \/ At(x, q + 1) % 2^r # 0

Take(x, n) == Tuple([i \in 1..n |-> At(x, i)])

\* floor(u / v) and whether a remainder is left, for v of 4 limbs with its
\* top limb at least Base / 2.
RECURSIVE Fit(_, _, _)
Fit(R, v, q) == IF NatLess(R, MulNat(v, <<q>>)) THEN Fit(R, v, q - 1) ELSE q

\* The quotient digits qs of u by v and whether a remainder is left: one
\* digit qd for each of the limbs u[i], ..., u[1], brought down in turn to
\* the remainder R.
RECURSIVE LongDiv(_, _, _, _, _)
DivDigit(u, v, i, R1, qs, qd) ==
    After(qd, LongDiv(u, v, i - 1, Take(SubNat(R1, MulNat(v, <<qd>>)), 4), <<qd>> \o qs))

Estimate(R1, v) ==
    IF (At(R1, 5) * Base + At(R1, 4)) \div v[4] > Base - 1 THEN Base - 1
    ELSE (At(R1, 5) * Base + At(R1, 4)) \div v[4]

DivStep(u, v, i, R1, qs) == DivDigit(u, v, i, R1, qs, Fit(R1, v, Estimate(R1, v)))

LongDiv(u, v, i, R, qs) ==
    IF i = 0 THEN [q |-> qs, rest |-> ~IsZeroNat(R)]
    ELSE DivStep(u, v, i, <<u[i]>> \o R, qs)

----------------------------------------------------------------------------
\* A double: sign s, the exponent e of its leading bit and its 53-bit
\* significand m in 4 limbs; the value is (-1)^s * m * 2^(e - 52).
Zero4 == <<0, 0, 0, 0>>

\* The leading bit of a significand, in its top limb.
HiddenBit == 1024

DZero == [s |-> 0, e |-> 0, m |-> Zero4]

IsDZero(x) == x.m = Zero4

\* The double of sign s and exponent e - 1 with significand M1, or the next
\* power of two when rounding has carried M1 to 2^53.
Rounded(s, e, M1) ==
    IF At(M1, 4) >= 2 * HiddenBit
    THEN [s |-> s, e |-> e, m |-> <<0, 0, 0, HiddenBit>>]
    ELSE [s |-> s, e |-> e - 1, m |-> Take(M1, 4)]

\* M0 rounded up when the bit dropped from it is set (half) and either a
\* lower bit was set too (below) or M0 is odd: ties go to the even significand.
RoundUp(s, e, M0, half, below) ==
    Rounded(s, e, IF half /\ (below \/ M0[1] % 2 = 1) THEN AddNat(M0, <<1>>) ELSE M0)

\* Y holds the leading 54 bits of the number.
RoundHalf(s, e, Y, below) == RoundUp(s, e, ShiftRight(Y, 1), Y[1] % 2 = 1, below)

RoundBits(s, X, L, E, sticky) ==
    IF L = 0 THEN DZero
    ELSE IF L <= 53
    THEN [s |-> s, e |-> E + L - 1, m |-> Take(ShiftLeft(X, 53 - L), 4)]
    ELSE RoundHalf(s, E + L, ShiftRight(X, L - 54), sticky \/ DropsBits(X, L - 54))

\* The double nearest to X * 2^E, or to a value just above it when sticky
\* holds.
RoundPack(s, X, E, sticky) == RoundBits(s, X, BitLength(X), E, sticky)

FromMagnitude(s, mag) ==
    RoundPack(s, <<mag % Base, (mag \div Base) % Base, mag \div (Base * Base)>>, 0, FALSE)

\* (double) n
FromInt(n) == IF n < 0 THEN FromMagnitude(1, -n) ELSE FromMagnitude(0, n)

fneg(x) == IF IsDZero(x) THEN x ELSE [x EXCEPT !.s = 1 - x.s]

\* |x| < |y|
MagLess(x, y) ==
    IF IsDZero(y) THEN FALSE
    ELSE IF IsDZero(x) THEN TRUE
    ELSE IF x.e # y.e THEN x.e < y.e
    ELSE NatLess(x.m, y.m)

fmul(x, y) ==
    IF IsDZero(x) \/ IsDZero(y) THEN DZero
    ELSE RoundPack((x.s + y.s) % 2, MulNat(x.m, y.m), x.e + y.e - 104, FALSE)

PackQuotient(x, y, d) == RoundPack((x.s + y.s) % 2, d.q, x.e - y.e - 56, d.rest)

DivSignificands(x, y, u, v) ==
    PackQuotient(x, y, LongDiv(u, v, 5, Take(SubSeq(u, 6, 8), 4), <<>>))

fdiv(x, y) ==
    IF IsDZero(x) THEN DZero
    ELSE DivSignificands(x, y, Zero4 \o Take(ShiftLeft(x.m, 3), 4),
                         Take(ShiftLeft(y.m, 3), 4))

\* x + y for |x| >= |y| > 0: the significands are added when the signs agree
\* and subtracted when they differ; a y too small to reach the rounding bits
\* of x only makes the sum inexact.
AddOrdered(x, y) ==
    IF x.e - y.e <= 56
    THEN RoundPack(x.s,
                   IF x.s = y.s THEN AddNat(ShiftLeft(x.m, x.e - y.e), y.m)
                                ELSE SubNat(ShiftLeft(x.m, x.e - y.e), y.m),
                   y.e - 52, FALSE)
    ELSE RoundPack(x.s,
                   IF x.s = y.s THEN ShiftLeft(x.m, 2)
                                ELSE SubNat(ShiftLeft(x.m, 2), <<1>>),
                   x.e - 54, TRUE)

fadd(x, y) ==
    IF IsDZero(y) THEN x
    ELSE IF IsDZero(x) THEN y
    ELSE IF MagLess(x, y) THEN AddOrdered(y, x) ELSE AddOrdered(x, y)

fsub(x, y) == fadd(x, fneg(y))

\* x < y
fless(x, y) ==
    IF x.s # y.s THEN x.s = 1
    ELSE IF x.s = 0 THEN MagLess(x, y) ELSE MagLess(y, x)

----------------------------------------------------------------------------
\* __ieee754_log of fdlibm (e_log.c), which StrictMath.log runs.
Half == [s |-> 0, e |-> -1, m |-> <<0, 0, 0, 1024>>]

One == [s |-> 0, e |-> 0, m |-> <<0, 0, 0, 1024>>]

Two == [s |-> 0, e |-> 1, m |-> <<0, 0, 0, 1024>>]

\* ln2_hi = 0.6931471803691238 (3FE62E42 FEE00000)
ln2_hi == [s |-> 0, e |-> -1, m |-> <<0, 15232, 9263, 1419>>]

\* ln2_lo = 1.9082149292705877e-10 (3DEA39EF 35793C76)
ln2_lo == [s |-> 0, e |-> -33, m |-> <<15478, 5604, 7923, 1678>>]

\* Lg1 = 0.6666666666666735 (3FE55555 55555593)
Lg1 == [s |-> 0, e |-> -1, m |-> <<5523, 5461, 5461, 1365>>]

\* Lg2 = 0.3999999999940942 (3FD99999 9997FA04)
Lg2 == [s |-> 0, e |-> -2, m |-> <<14852, 9823, 6553, 1638>>]

\* Lg3 = 0.2857142874366239 (3FD24924 94229359)
Lg3 == [s |-> 0, e |-> -2, m |-> <<4953, 4234, 4681, 1170>>]

\* Lg4 = 0.22222198432149784 (3FCC71C5 1D8E78AF)
Lg4 == [s |-> 0, e |-> -3, m |-> <<14511, 13881, 7249, 1820>>]

\* Lg5 = 0.1818357216161805 (3FC74664 96CB03DE)
Lg5 == [s |-> 0, e |-> -3, m |-> <<990, 6956, 9801, 1489>>]

\* Lg6 = 0.15313837699209373 (3FC39A09 D078C69F)
Lg6 == [s |-> 0, e |-> -3, m |-> <<1695, 483, 8349, 1254>>]

\* Lg7 = 0.14798198605116586 (3FC2F112 DF3E5244)
Lg7 == [s |-> 0, e |-> -3, m |-> <<4676, 15609, 4397, 1212>>]

\* Third = 0.3333333333333333 (3FD55555 55555555)
Third == [s |-> 0, e |-> -2, m |-> <<5461, 5461, 5461, 1365>>]


\* The logarithm of a positive double x = 2^k * (1 + f), with hx the top 20
\* bits of the fraction of x: log(1 + f) = f - s * (f - R) for s = f / (2 + f)
\* and R a polynomial in z = s * s, and log(x) = k * ln2 + log(1 + f).
LogResult(hx, k, f, dk, s, R, hfsq) ==
    After(<<dk, R, hfsq>>,
        IF hx >= 398458 /\ hx <= 440401
        THEN IF k = 0
             THEN fsub(f, fsub(hfsq, fmul(s, fadd(hfsq, R))))
             ELSE fsub(fmul(dk, ln2_hi),
                       fsub(fsub(hfsq, fadd(fmul(s, fadd(hfsq, R)), fmul(dk, ln2_lo))), f))
        ELSE IF k = 0
             THEN fsub(f, fmul(s, fsub(f, R)))
             ELSE fsub(fmul(dk, ln2_hi),
                       fsub(fsub(fmul(s, fsub(f, R)), fmul(dk, ln2_lo)), f)))

LogSum(hx, k, f, dk, s, t1, t2) ==
    After(<<t1, t2>>, LogResult(hx, k, f, dk, s, fadd(t2, t1), fmul(fmul(Half, f), f)))

LogTerms(hx, k, f, dk, s, z, w) ==
    After(w,
        LogSum(hx, k, f, dk, s,
               fmul(w, fadd(Lg2, fmul(w, fadd(Lg4, fmul(w, Lg6))))),
               fmul(z, fadd(Lg1, fmul(w, fadd(Lg3, fmul(w, fadd(Lg5, fmul(w, Lg7)))))))))

LogPowers(hx, k, f, dk, s, z) == After(z, LogTerms(hx, k, f, dk, s, z, fmul(z, z)))

LogSeries(hx, k, f, dk, s) == After(s, LogPowers(hx, k, f, dk, s, fmul(s, s)))

\* |f| < 2^-20
LogNearOne(k, f, dk, R) ==
    After(<<dk, R>>,
        IF IsDZero(f)
        THEN IF k = 0 THEN DZero
             ELSE fadd(fmul(dk, ln2_hi), fmul(dk, ln2_lo))
        ELSE IF k = 0 THEN fsub(f, R)
             ELSE fsub(fmul(dk, ln2_hi), fsub(fsub(R, fmul(dk, ln2_lo)), f)))

LogSplit(hx, k, f) ==
    After(f,
        IF (2 + hx) % 1048576 < 3
        THEN LogNearOne(k, f, FromInt(k), fmul(fmul(f, f), fsub(Half, fmul(Third, f))))
        ELSE LogSeries(hx, k, f, FromInt(k), fdiv(f, fadd(Two, f))))

LogReduce(x, hx, i) == LogSplit(hx, x.e + i, fsub([x EXCEPT !.e = -i], One))

ieee754_log(x) ==
    LET hx == (x.m[4] - HiddenBit) * 1024 + (x.m[3] \div 16)
    IN  LogReduce(x, hx, IF hx + 614244 >= 1048576 THEN 1 ELSE 0)

\* StrictMath.log(2) = 0.6931471805599453 (3FE62E42 FEFA39EF)
Ln2 == [s |-> 0, e |-> -1, m |-> <<14831, 15336, 9263, 1419>>]

----------------------------------------------------------------------------
\* The expressions of Spark SQL on double columns (ANSI mode off).

\* A null of a double column.
NullReal == [s |-> 0, e |-> 0, m |-> <<>>]

\* An integer column or literal cast to double.
ToReal(n) == IF n = NullInt THEN NullReal ELSE FromInt(n)

\* x / y: null when an operand is null or the divisor is zero.
Divide(x, y) ==
    IF x = NullReal \/ y = NullReal THEN NullReal
    ELSE IF IsDZero(y) THEN NullReal
    ELSE fdiv(x, y)

\* x * y
Multiply(x, y) ==
    IF x = NullReal \/ y = NullReal THEN NullReal ELSE fmul(x, y)

\* log2(x) = StrictMath.log(x) / StrictMath.log(2): null when x is null or
\* not positive.
Log2(x) ==
    IF x = NullReal THEN NullReal
    ELSE IF IsDZero(x) \/ x.s = 1 THEN NullReal
    ELSE fdiv(ieee754_log(x), Ln2)
\* Variant: the two logarithms subtracted the wrong way round.
Subtract_Swapped(la, lb) ==
    IF la = NullReal \/ lb = NullReal THEN NullReal ELSE fsub(lb, la)

\* x - y
Subtract(la, lb) ==
    IF la = NullReal \/ lb = NullReal THEN NullReal ELSE fsub(la, lb)

\* -x
Negate(x) == IF x = NullReal THEN NullReal ELSE fneg(x)

\* x sorts strictly before y in ascending order: a null before every number
\* (ascending order puts nulls first, descending order puts them last).
ScoreLess(x, y) ==
    IF y = NullReal THEN FALSE
    ELSE IF x = NullReal THEN TRUE
    ELSE fless(x, y)

\* The exponents of the normal doubles.
MinExponent == -1022

MaxExponent == 1023

\* x is a number a double column holds as it is held here: not null, and zero
\* or within the range of the normal doubles (beyond it the hardware gives a
\* subnormal number or an infinity).
IsFinite(x) ==
    /\ x # NullReal
    /\ IsDZero(x) \/ (x.e >= MinExponent /\ x.e <= MaxExponent)

\* x > 0
IsPositive(x) == x # NullReal /\ ~IsDZero(x) /\ x.s = 0
\* Variant: the smoothing constant is not added.
AddInt_Dropped(n, k) == n

\* int + int, null if the column is null.
AddInt(n, k) == IF n = NullInt THEN NullInt ELSE n + k

----------------------------------------------------------------------------
(* Frequency aggregation                                                   *)
\* Variant: the distinct words are counted, not the tokens.
CountRows_Distinct(words) == Cardinality({words[i] : i \in 1..Len(words)})

\* clean_words_df.count()
CountRows(words) == Len(words)

\* word_counts: groupBy("word").count(), the count renamed context_count.
WordCounts(words) == GroupCount(words)
\* Variant: the lexicon rows are counted without grouping by word, so every
\* lexicon word gets the count of the whole class.
LexiconCounts_Ungrouped(words, lexicon) ==
    LET InLexicon(w) == w \in lexicon
        hits == SelectSeq(words, InLexicon)
    IN  { [word |-> w, count |-> Len(hits)] : w \in {hits[i] : i \in 1..Len(hits)} }

\* clean_words_df.filter(col("word").isin(lexicon)).groupBy("word").count()
LexiconCounts(words, lexicon) ==
    LET InLexicon(w) == w \in lexicon
    IN  GroupCount(SelectSeq(words, InLexicon))

\* agg({"<count>": "sum"}).collect()[0][0]: None over no rows.
RECURSIVE SumRows(_)
SumRows(rows) ==
    IF rows = {} THEN 0
    ELSE LET r == CHOOSE x \in rows : TRUE IN r.count + SumRows(rows \ {r})

AggSum(rows) == IF rows = {} THEN NullInt ELSE SumRows(rows)
\* Variant: the guard written  or 0.
OrOne_Zero(x) == IF x = NullInt THEN 0 ELSE x

\* Python's  x or 1
OrOne(x) == IF x = NullInt \/ x = 0 THEN 1 ELSE x
\* Variant: the total without its  or 1  guard.
TotalOf_NoGuard(counts) == AggSum(counts)

TotalOf(counts) == OrOne(AggSum(counts))

----------------------------------------------------------------------------
(* PMI scoring                                                             *)

\* smoothing factor
alpha == 1

\* left.join(right, "word", "left") for one row of left: the count of every
\* row of right with the same word, a single null where right has none.
JoinedCounts(word, right) ==
    LET matches == {q \in right : q.word = word}
    IN  IF matches = {} THEN {NullInt} ELSE {q.count : q \in matches}

\* Variant: the joined table without .na.fill(0).
NaFill_Missing(n) == n

\* .na.fill(0)
NaFill(n) == IF n = NullInt THEN 0 ELSE n
\* Variant: the two joins written as inner joins.
JoinCounts_Inner(wc, pc_, nc) ==
    UNION { { [word          |-> r.word,
               context_count |-> r.count,
               pos_count     |-> p.count,
               neg_count     |-> n.count] :
                 p \in {q \in pc_ : q.word = r.word},
                 n \in {q \in nc : q.word = r.word} } :
            r \in wc }

\* word_counts.join(pos_counts, "word", "left").join(neg_counts, "word",
\* "left").na.fill(0)
JoinCounts(wc, pc_, nc) ==
    UNION { { [word          |-> r.word,
               context_count |-> r.count,
               pos_count     |-> NaFill(p),
               neg_count     |-> NaFill(n)] :
                 p \in JoinedCounts(r.word, pc_), n \in JoinedCounts(r.word, nc) } :
            r \in wc }

\* Variant: the negative count used without smoothing.
PmiRow_NoNegSmoothing(r, N, P, Q) ==
    LET pos_count_s  == AddInt(r.pos_count, alpha)
        neg_count_s  == r.neg_count
        p_w          == Divide(ToReal(r.context_count), ToReal(N))
        p_pos        == Divide(ToReal(P), ToReal(N))
        p_neg        == Divide(ToReal(Q), ToReal(N))
        p_w_pos_s    == Divide(ToReal(pos_count_s), ToReal(N))
        p_w_neg_s    == Divide(ToReal(neg_count_s), ToReal(N))
        pmi_positive == Log2(Divide(p_w_pos_s, Multiply(p_w, p_pos)))
        pmi_negative == Log2(Divide(p_w_neg_s, Multiply(p_w, p_neg)))
    IN  [word            |-> r.word,
         context_count   |-> r.context_count,
         pos_count       |-> r.pos_count,
         neg_count       |-> r.neg_count,
         pos_count_s     |-> pos_count_s,
         neg_count_s     |-> neg_count_s,
         p_w             |-> p_w,
         p_pos           |-> p_pos,
         p_neg           |-> p_neg,
         p_w_pos_s       |-> p_w_pos_s,
         p_w_neg_s       |-> p_w_neg_s,
         pmi_positive    |-> pmi_positive,
         pmi_negative    |-> pmi_negative,
         sentiment_score |-> Subtract(pmi_positive, pmi_negative)]
\* Variant: pmi_negative written without the factor p_w.
PmiRow_NegWithoutPw(r, N, P, Q) ==
    LET pos_count_s  == AddInt(r.pos_count, alpha)
        neg_count_s  == AddInt(r.neg_count, alpha)
        p_w          == Divide(ToReal(r.context_count), ToReal(N))
        p_pos        == Divide(ToReal(P), ToReal(N))
        p_neg        == Divide(ToReal(Q), ToReal(N))
        p_w_pos_s    == Divide(ToReal(pos_count_s), ToReal(N))
        p_w_neg_s    == Divide(ToReal(neg_count_s), ToReal(N))
        pmi_positive == Log2(Divide(p_w_pos_s, Multiply(p_w, p_pos)))
        pmi_negative == Log2(Divide(p_w_neg_s, p_neg))
    IN  [word            |-> r.word,
         context_count   |-> r.context_count,
         pos_count       |-> r.pos_count,
         neg_count       |-> r.neg_count,
         pos_count_s     |-> pos_count_s,
         neg_count_s     |-> neg_count_s,
         p_w             |-> p_w,
         p_pos           |-> p_pos,
         p_neg           |-> p_neg,
         p_w_pos_s       |-> p_w_pos_s,
         p_w_neg_s       |-> p_w_neg_s,
         pmi_positive    |-> pmi_positive,
         pmi_negative    |-> pmi_negative,
         sentiment_score |-> Subtract(pmi_positive, pmi_negative)]

\* The withColumn chain of pmi_df on one joined row.
PmiRow(r, N, P, Q) ==
    LET pos_count_s  == AddInt(r.pos_count, alpha)
        neg_count_s  == AddInt(r.neg_count, alpha)
        p_w          == Divide(ToReal(r.context_count), ToReal(N))
        p_pos        == Divide(ToReal(P), ToReal(N))
        p_neg        == Divide(ToReal(Q), ToReal(N))
        p_w_pos_s    == Divide(ToReal(pos_count_s), ToReal(N))
        p_w_neg_s    == Divide(ToReal(neg_count_s), ToReal(N))
        pmi_positive == Log2(Divide(p_w_pos_s, Multiply(p_w, p_pos)))
        pmi_negative == Log2(Divide(p_w_neg_s, Multiply(p_w, p_neg)))
    IN  [word            |-> r.word,
         context_count   |-> r.context_count,
         pos_count       |-> r.pos_count,
         neg_count       |-> r.neg_count,
         pos_count_s     |-> pos_count_s,
         neg_count_s     |-> neg_count_s,
         p_w             |-> p_w,
         p_pos           |-> p_pos,
         p_neg           |-> p_neg,
         p_w_pos_s       |-> p_w_pos_s,
         p_w_neg_s       |-> p_w_neg_s,
         pmi_positive    |-> pmi_positive,
         pmi_negative    |-> pmi_negative,
         sentiment_score |-> Subtract(pmi_positive, pmi_negative)]

PmiDf(wc, pc_, nc, N, P, Q) == { PmiRow(r, N, P, Q) : r \in JoinCounts(wc, pc_, nc) }

----------------------------------------------------------------------------
(* Filtering and ranking                                                   *)

MinContextCount == 5

TopLimit == 10

WordFreqLimit == 100
\* Variant: the floor written with > in place of >=.
FrequencyFloor_Strict(rows) == {r \in rows : r.context_count > MinContextCount}

\* pmi_df.filter(col("context_count") >= 5)
FrequencyFloor(rows) == {r \in rows : r.context_count >= MinContextCount}
\* Variant: the ambiguous words are not removed.
RemoveAmbiguous_Missing(rows) == rows

\* .filter(~col("word").isin(ambiguous_words))
RemoveAmbiguous(rows) == {r \in rows : r.word \notin ambiguous_words}

PmiFiltered(rows) == RemoveAmbiguous(FrequencyFloor(rows))

\* a sorts strictly before b under the sort key of an orderBy.
Precedes(a, b, key) ==
    CASE key = "sentiment_score.desc" -> ScoreLess(b.sentiment_score, a.sentiment_score)
      [] key = "sentiment_score.asc"  -> ScoreLess(a.sentiment_score, b.sentiment_score)
      [] key = "count.desc"           -> a.count > b.count

\* The rows that no other row sorts strictly before.
Foremost(rows, key) == {r \in rows : \A q \in rows : ~Precedes(q, r, key)}

\* orderBy(key): Spark's sort is not stable and the rows of a grouped or
\* joined DataFrame have no defined order, so rows with equal keys may come
\* out in any order: every sequence of the rows that respects the key.
RECURSIVE OrderBy(_, _)
OrderBy(rows, key) ==
    IF rows = {} THEN {<<>>}
    ELSE UNION { { <<r>> \o rest : rest \in OrderBy(rows \ {r}, key) } :
                 r \in Foremost(rows, key) }

\* orderBy(key) as far as a limit that follows reads it: the first n rows of
\* every sequence OrderBy(rows, key) holds, all of them when there are fewer.
RECURSIVE OrderByFirst(_, _, _)
OrderByFirst(rows, key, n) ==
    IF rows = {} \/ n = 0 THEN {<<>>}
    ELSE UNION { { <<r>> \o rest : rest \in OrderByFirst(rows \ {r}, key, n - 1) } :
                 r \in Foremost(rows, key) }
\* Variant: one row too many is kept.
Limit_OneMore(s, n) == SubSeq(s, 1, IF Len(s) < n + 1 THEN Len(s) ELSE n + 1)

\* .limit(n)
Limit(s, n) == SubSeq(s, 1, IF Len(s) < n THEN Len(s) ELSE n)

\* .select("word", "context_count", "sentiment_score")
SelectColumns(s) ==
    [i \in 1..Len(s) |-> [word            |-> s[i].word,
                          context_count   |-> s[i].context_count,
                          sentiment_score |-> s[i].sentiment_score]]

\* The results orderBy(key).select(...).limit(10).toPandas() can return. The
\* sort is followed one row past the limit, so that the cut is limit's.
TopRanked(rows, key) ==
    { Limit(SelectColumns(s), TopLimit) : s \in OrderByFirst(rows, key, TopLimit + 1) }
\* Variant: the frequency table built after the frequency floor and the
\* ambiguous-word filter.
WordFreqTop_Filtered(words) ==
    { Limit(t, WordFreqLimit) :
        t \in OrderBy({r \in GroupCount(words) :
                          r.count >= MinContextCount /\ r.word \notin ambiguous_words},
                      "count.desc") }

\* Variant: the frequency table saved without limit(100).
WordFreqTop_Unlimited(words) == OrderBy(GroupCount(words), "count.desc")

\* The results word_freq_clean.limit(100).toPandas() can return.
WordFreqTop(words) ==
    { Limit(s, WordFreqLimit) : s \in OrderBy(GroupCount(words), "count.desc") }

----------------------------------------------------------------------------
(* The comments a corpus is drawn from                                     *)

\* s repeated k times.
RECURSIVE Times(_, _)
Times(s, k) == IF k = 0 THEN <<>> ELSE s \o Times(s, k - 1)

\* The word w, k times, each followed by a space.
Word(w, k) == Times(w \o <<" ">>, k)

\* "good game good"
DocShortGood ==
    << "g","o","o","d"," ","g","a","m","e"," ","g","o","o","d" >>

\* "bad game bad"
DocShortBad ==
    << "b","a","d"," ","g","a","m","e"," ","b","a","d" >>

\* "Good, GOOD good good good!" and six times "great"
DocPraise ==
    <<"G","o","o","d",","," ","G","O","O","D"," ","g","o","o","d"," ","g","o","o","d"," ","g","o","o","d","!"," ">>
    \o Word(<<"g","r","e","a","t">>, 6)

\* seven times "bad" and "the game was BORING boring boring boring"
DocComplaint ==
    Word(<<"b","a","d">>, 7)
    \o <<"t","h","e"," ","g","a","m","e"," ","w","a","s"," ","B","O","R","I","N","G">>
    \o <<" ","b","o","r","i","n","g"," ","b","o","r","i","n","g"," ","b","o","r","i","n","g">>

\* five times "sword", six times "story" and "see http://www.x.io ok it's 9/10"
DocReview ==
    Word(<<"s","w","o","r","d">>, 5) \o Word(<<"s","t","o","r","y">>, 6)
    \o <<"s","e","e"," ","h","t","t","p",":","/","/","w","w","w",".","x",".","i","o">>
    \o <<" ","o","k"," ","i","t","'","s"," ","9","/","1","0">>

\* "armor armor armor armor"
DocArmor == Word(<<"a","r","m","o","r">>, 3) \o <<"a","r","m","o","r">>

\* "\tthe game is just like a game!! ": no token survives
DocFiller ==
    <<"\t","t","h","e"," ","g","a","m","e"," ","i","s"," ","j","u","s","t">> \o <<" ","l","i","k","e"," ","a"," ","g","a","m","e","!","!"," ">>

\* Eleven words that pass every filter, two of them with equal counts.
DocLong ==
    Word(<<"g","o","o","d">>, 5) \o Word(<<"g","r","e","a","t">>, 6)
    \o Word(<<"l","o","v","e">>, 7) \o Word(<<"f","u","n">>, 8)
    \o Word(<<"b","e","s","t">>, 9) \o Word(<<"s","h","i","e","l","d">>, 10)
    \o Word(<<"b","a","d">>, 11) \o Word(<<"b","u","g">>, 12)
    \o Word(<<"c","r","a","s","h">>, 13) \o Word(<<"h","a","t","e">>, 14)
    \o Word(<<"a","w","f","u","l">>, 14)
\* "\fSo EVER!\n\x0bsee https://t.co/xhttpd wwwhat?? go 2 it": one token
\* survives
DocNoisy ==
    <<"\f","S","o"," ","E","V","E","R","!","\n","U+000B","s","e","e"," ">>
    \o <<"h","t","t","p","s",":","/","/","t",".","c","o","/","x","h","t","t","p","d">>
    \o <<" ","w","w","w","h","a","t","?","?"," ","g","o"," ","2"," ","i","t">>

Comments ==
    { NULL, DocShortGood, DocShortBad, DocPraise, DocComplaint, DocReview,
      DocArmor, DocFiller, DocNoisy, DocLong }

\* The most rows the file holds.
MaxRows == 2

Corpora == UNION { [1..n -> Comments] : n \in 0..MaxRows }

\* A file whose comments hold more distinct tokens than the frequency table
\* has rows. Lexicon and ambiguous words come first, coined words after
\* them; the k-th word of a file of n words has a comment of its own that
\* mentions it n + 1 - k times, so no two words have the same count.
KnownWords ==
    << <<"g","o","o","d">>, <<"b","a","d">>, <<"g","r","e","a","t">>, <<"t","e","r","r","i","b","l","e">>,
       <<"l","o","v","e">>, <<"a","w","f","u","l">>, <<"a","m","a","z","i","n","g">>, <<"w","o","r","s","t">>,
       <<"f","u","n">>, <<"b","o","r","i","n","g">>, <<"b","e","s","t">>, <<"h","a","t","e">>,
       <<"b","e","t","t","e","r">>, <<"i","s","s","u","e">>, <<"a","w","e","s","o","m","e">>, <<"p","r","o","b","l","e","m">>,
       <<"e","x","c","e","l","l","e","n","t">>, <<"b","r","o","k","e","n">>, <<"b","e","a","u","t","i","f","u","l">>, <<"b","u","g">>,
       <<"p","e","r","f","e","c","t">>, <<"g","l","i","t","c","h">>, <<"e","n","j","o","y">>, <<"c","r","a","s","h">>,
       <<"s","t","o","r","y">>, <<"c","o","m","b","a","t">>, <<"s","t","e","a","l","t","h">> >>

Alphabet ==
    <<"a","b","c","d","e","f","g","h","i","j","k","l","m",
      "n","o","p","q","r","s","t","u","v","w","x","y","z">>

\* "xaa", "xab", ..., "xba", ...
Coined(k) == <<"x", Alphabet[((k - 1) \div 26) + 1], Alphabet[((k - 1) % 26) + 1]>>

WideWord(k) ==
    IF k <= Len(KnownWords) THEN KnownWords[k] ELSE Coined(k - Len(KnownWords))

\* "this is what it is about ": stop words, longer than 20 characters
Opening ==
    <<"t","h","i","s"," ","i","s"," ","w","h","a","t"," ","i","t"," ","i","s"," ","a","b","o","u","t"," ">>

\* The comment that mentions w c times.
Mentions(w, c) == Opening \o Word(w, c)

RECURSIVE WideRows(_, _)
WideRows(k, n) ==
    IF k > n THEN <<>> ELSE <<Mentions(WideWord(k), n + 1 - k)>> \o WideRows(k + 1, n)

\* The most distinct words of a wide file.
MaxWords == 101

WideCorpora == { WideRows(1, n) : n \in WordFreqLimit..MaxWords }

\* The files the frequency table is checked on: the wide ones and those of
\* at most one sample comment.
FrequencyCorpora == WideCorpora \cup {c \in Corpora : Len(c) <= 1}

----------------------------------------------------------------------------
(* The script, section by section                                          *)

NotRun ==
    /\ df_clean = <<>>
    /\ tokens = <<>>
    /\ clean_tokens = <<>>
    /\ clean_words_df = <<>>
    /\ total_tokens = NullInt
    /\ word_counts = {}
    /\ pos_counts = {}
    /\ neg_counts = {}
    /\ total_pos = NullInt
    /\ total_neg = NullInt
    /\ pmi_df = {}
    /\ pmi_filtered = {}
    /\ top_pos = <<>>
    /\ top_neg = <<>>
\* No table has been merged.
NoTables == [context |-> {}, pos |-> {}, neg |-> {}]

\* No sharded build is under way.
ShardsIdle ==
    /\ shards = <<>>
    /\ partial = <<>>
    /\ merged = <<>>
    /\ acc = NoTables

\* No call of make_request is under way.
RequestIdle ==
    /\ rq_pc = "idle"
    /\ rq_delay_range = <<0, 0>>
    /\ retry_count = 0
    /\ rq_events = <<>>
    /\ rq_result = "none"
\* No body has been parsed.
NoData == [reviews |-> <<>>, cursor |-> "None", parsed |-> FALSE]

\* No call of fetch_reviews_api is under way.
SteamIdle ==
    /\ st_pc = "idle"
    /\ cursor = "*"
    /\ all_reviews = <<>>
    /\ page = 1
    /\ attempt = 0
    /\ data = NoData
    /\ st_total = 0
    /\ st_served = 0
    /\ st_requests = <<0>>
    /\ st_failures = 0
\* No call of scrape_youtube_comments is under way.
ScrollIdle ==
    /\ sc_pc = "idle"
    /\ max_scroll = 0
    /\ scrolls = 0
    /\ last_len = 0
    /\ stagnant = 0
    /\ comments_len = 0
    /\ sc_same = 0
    /\ sc_stop = "no"
\* main of reddit_scraper_no_api.py has not been started.
RedditIdle ==
    /\ rd_pc = "idle"
    /\ rd_posts = <<>>
    /\ rd_seen = <<>>
    /\ all_results = <<>>
    /\ csv_reddit = <<>>

\* No scraper is running.
ScrapersIdle ==
    /\ SteamIdle
    /\ ScrollIdle
    /\ RedditIdle

Init ==
    /\ df \in Corpora
    /\ pc = "clean"
    /\ run = "first"
    /\ NotRun
    /\ csv_positive = <<>>
    /\ csv_negative = <<>>
    /\ csv_word_freq = <<>>
    /\ prev_positive = <<>>
    /\ prev_negative = <<>>
    /\ prev_word_freq = <<>>
    /\ ShardsIdle
    /\ RequestIdle
    /\ ScrapersIdle

\* The script started on one of the files of FrequencyCorpora.
InitFrequency ==
    /\ df \in FrequencyCorpora
    /\ pc = "clean"
    /\ run = "first"
    /\ NotRun
    /\ csv_positive = <<>>
    /\ csv_negative = <<>>
    /\ csv_word_freq = <<>>
    /\ prev_positive = <<>>
    /\ prev_negative = <<>>
    /\ prev_word_freq = <<>>
    /\ ShardsIdle
    /\ RequestIdle
    /\ ScrapersIdle

\* CLEAN DATA: df_clean.
CleanData ==
    /\ pc = "clean"
    /\ df_clean' = CleanComments(df)
    /\ pc' = "tokenize"
    /\ UNCHANGED <<shardVars, requestVars, scraperVars>>
    /\ UNCHANGED <<df, run, tokens, clean_tokens, clean_words_df, total_tokens,
                   word_counts, pos_counts, neg_counts, total_pos, total_neg,
                   pmi_df, pmi_filtered, top_pos, top_neg, csv_positive,
                   csv_negative, csv_word_freq, prev_positive, prev_negative,
                   prev_word_freq>>

\* df_text: lowercase, strip the special characters, tokenize.
Tokenize ==
    /\ pc = "tokenize"
    /\ tokens' = [i \in 1..Len(df_clean) |-> TokensOf(df_clean[i])]
    /\ pc' = "stopwords"
    /\ UNCHANGED <<shardVars, requestVars, scraperVars>>
    /\ UNCHANGED <<df, run, df_clean, clean_tokens, clean_words_df, total_tokens,
                   word_counts, pos_counts, neg_counts, total_pos, total_neg,
                   pmi_df, pmi_filtered, top_pos, top_neg, csv_positive,
                   csv_negative, csv_word_freq, prev_positive, prev_negative,
                   prev_word_freq>>

\* REMOVE STOPWORDS: result.
RemoveStopwords ==
    /\ pc = "stopwords"
    /\ clean_tokens' = [i \in 1..Len(tokens) |-> RemoveStopWords(tokens[i])]
    /\ pc' = "frequency"
    /\ UNCHANGED <<shardVars, requestVars, scraperVars>>
    /\ UNCHANGED <<df, run, df_clean, tokens, clean_words_df, total_tokens,
                   word_counts, pos_counts, neg_counts, total_pos, total_neg,
                   pmi_df, pmi_filtered, top_pos, top_neg, csv_positive,
                   csv_negative, csv_word_freq, prev_positive, prev_negative,
                   prev_word_freq>>

\* WORD FREQUENCY: clean_words_df (word_freq_clean is evaluated on saving).
WordFrequency ==
    /\ pc = "frequency"
    /\ clean_words_df' = CleanWords(clean_tokens)
    /\ pc' = "pmi"
    /\ UNCHANGED <<shardVars, requestVars, scraperVars>>
    /\ UNCHANGED <<df, run, df_clean, tokens, clean_tokens, total_tokens,
                   word_counts, pos_counts, neg_counts, total_pos, total_neg,
                   pmi_df, pmi_filtered, top_pos, top_neg, csv_positive,
                   csv_negative, csv_word_freq, prev_positive, prev_negative,
                   prev_word_freq>>

\* PMI SENTIMENT ANALYSIS: the totals, the three count tables and pmi_df.
CalculatePMI ==
    /\ pc = "pmi"
    /\ total_tokens' = CountRows(clean_words_df)
    /\ word_counts' = WordCounts(clean_words_df)
    /\ pos_counts' = LexiconCounts(clean_words_df, positive_words)
    /\ neg_counts' = LexiconCounts(clean_words_df, negative_words)
    /\ total_pos' = TotalOf(pos_counts')
    /\ total_neg' = TotalOf(neg_counts')
    /\ pmi_df' = PmiDf(word_counts', pos_counts', neg_counts',
                       total_tokens', total_pos', total_neg')
    /\ pc' = "filter"
    /\ UNCHANGED <<shardVars, requestVars, scraperVars>>
    /\ UNCHANGED <<df, run, df_clean, tokens, clean_tokens, clean_words_df,
                   pmi_filtered, top_pos, top_neg, csv_positive, csv_negative,
                   csv_word_freq, prev_positive, prev_negative, prev_word_freq>>

\* GET TOP POSITIVE & NEGATIVE WORDS: pmi_filtered.
FilterResults ==
    /\ pc = "filter"
    /\ pmi_filtered' = PmiFiltered(pmi_df)
    /\ pc' = "top_pos"
    /\ UNCHANGED <<shardVars, requestVars, scraperVars>>
    /\ UNCHANGED <<df, run, df_clean, tokens, clean_tokens, clean_words_df,
                   total_tokens, word_counts, pos_counts, neg_counts, total_pos,
                   total_neg, pmi_df, top_pos, top_neg, csv_positive,
                   csv_negative, csv_word_freq, prev_positive, prev_negative,
                   prev_word_freq>>

TopPositive ==
    /\ pc = "top_pos"
    /\ top_pos' \in TopRanked(pmi_filtered, "sentiment_score.desc")
    /\ pc' = "top_neg"
    /\ UNCHANGED <<shardVars, requestVars, scraperVars>>
    /\ UNCHANGED <<df, run, df_clean, tokens, clean_tokens, clean_words_df,
                   total_tokens, word_counts, pos_counts, neg_counts, total_pos,
                   total_neg, pmi_df, pmi_filtered, top_neg, csv_positive,
                   csv_negative, csv_word_freq, prev_positive, prev_negative,
                   prev_word_freq>>

TopNegative ==
    /\ pc = "top_neg"
    /\ top_neg' \in TopRanked(pmi_filtered, "sentiment_score.asc")
    /\ pc' = "save"
    /\ UNCHANGED <<shardVars, requestVars, scraperVars>>
    /\ UNCHANGED <<df, run, df_clean, tokens, clean_tokens, clean_words_df,
                   total_tokens, word_counts, pos_counts, neg_counts, total_pos,
                   total_neg, pmi_df, pmi_filtered, top_pos, csv_positive,
                   csv_negative, csv_word_freq, prev_positive, prev_negative,
                   prev_word_freq>>

\* SAVE TO CSV: the three files, overwritten.
SaveCsv ==
    /\ pc = "save"
    /\ csv_positive' = top_pos
    /\ csv_negative' = top_neg
    /\ csv_word_freq' \in WordFreqTop(clean_words_df)
    /\ pc' = "done"
    /\ UNCHANGED <<shardVars, requestVars, scraperVars>>
    /\ UNCHANGED <<df, run, df_clean, tokens, clean_tokens, clean_words_df,
                   total_tokens, word_counts, pos_counts, neg_counts, total_pos,
                   total_neg, pmi_df, pmi_filtered, top_pos, top_neg,
                   prev_positive, prev_negative, prev_word_freq>>

\* The script is started again on the same data/reddit_posts.csv; the files
\* of the first execution are remembered for comparison.
Rerun ==
    /\ pc = "done"
    /\ run = "first"
    /\ run' = "second"
    /\ pc' = "clean"
    /\ prev_positive' = csv_positive
    /\ prev_negative' = csv_negative
    /\ prev_word_freq' = csv_word_freq
    /\ df_clean' = <<>>
    /\ tokens' = <<>>
    /\ clean_tokens' = <<>>
    /\ clean_words_df' = <<>>
    /\ total_tokens' = NullInt
    /\ word_counts' = {}
    /\ pos_counts' = {}
    /\ neg_counts' = {}
    /\ total_pos' = NullInt
    /\ total_neg' = NullInt
    /\ pmi_df' = {}
    /\ pmi_filtered' = {}
    /\ top_pos' = <<>>
    /\ top_neg' = <<>>
    /\ UNCHANGED <<shardVars, requestVars, scraperVars>>
    /\ UNCHANGED <<df, csv_positive, csv_negative, csv_word_freq>>
----------------------------------------------------------------------------
(* The count tables built shard by shard                                   *)

\* The token stream of some rows: sections 1 to 3c of the script.
WordsOf(rows) ==
    LET kept == CleanComments(rows)
    IN  CleanWords([i \in 1..Len(kept) |-> RemoveStopWords(TokensOf(kept[i]))])

\* The three tables of section 4a over a token stream.
CountTables(words) ==
    [context |-> WordCounts(words),
     pos     |-> LexiconCounts(words, positive_words),
     neg     |-> LexiconCounts(words, negative_words)]

\* The count of a word in a table, 0 when it has no row.
CountIn(table, w) ==
    LET rows == {r \in table : r.word = w}
    IN  IF rows = {} THEN 0 ELSE (CHOOSE r \in rows : TRUE).count

\* Two partial tables merged by per-key summation.
MergeCounts(a, b) ==
    { [word |-> w, count |-> CountIn(a, w) + CountIn(b, w)] :
        w \in {r.word : r \in a \cup b} }

MergeTables(a, b) ==
    [context |-> MergeCounts(a.context, b.context),
     pos     |-> MergeCounts(a.pos, b.pos),
     neg     |-> MergeCounts(a.neg, b.neg)]

\* A shard not yet counted.
NotCounted == [context |-> {}, pos |-> {}, neg |-> {}, counted |-> FALSE]

\* The comments a shard may hold; the last one holds a comment df_clean drops.
ShardRows ==
    { <<DocPraise>>, <<DocComplaint, DocReview>>,
      <<DocReview, DocPraise, DocShortGood>> }

\* The most shards of a split.
MaxShards == 3

Splits == UNION { [1..n -> ShardRows] : n \in 0..MaxShards }

\* The script has not been started: only the sharded build runs.
PipelineOff ==
    /\ df = <<>>
    /\ pc = "off"
    /\ run = "first"
    /\ NotRun
    /\ top_pos = <<>>
    /\ top_neg = <<>>
    /\ csv_positive = <<>>
    /\ csv_negative = <<>>
    /\ csv_word_freq = <<>>
    /\ prev_positive = <<>>
    /\ prev_negative = <<>>
    /\ prev_word_freq = <<>>

\* The token stream of each shard, and of the whole corpus of each split.
StreamOf == [rows \in ShardRows |-> WordsOf(rows)]

WholeStreamOf == [split \in Splits |-> WordsOf(Explode(split))]

InitShards ==
    /\ PipelineOff
    /\ RequestIdle
    /\ shards \in Splits
    /\ partial = [i \in 1..Len(shards) |-> NotCounted]
    /\ merged = <<>>
    /\ acc = NoTables
    /\ ScrapersIdle

\* A worker counts the tokens of its shard into partial tables.
CountShard(i) ==
    /\ ~partial[i].counted
    /\ LET t == CountTables(StreamOf[shards[i]])
       IN  partial' = [partial EXCEPT ![i] =
                         [context |-> t.context, pos |-> t.pos, neg |-> t.neg,
                          counted |-> TRUE]]
    /\ UNCHANGED <<shards, merged, acc>>
    /\ UNCHANGED <<pmiVars, requestVars, scraperVars>>

\* The partial tables of a counted shard are merged into the result.
MergeShard(i) ==
    /\ partial[i].counted
    /\ i \notin {merged[k] : k \in 1..Len(merged)}
    /\ acc' = MergeTables(acc, partial[i])
    /\ merged' = Append(merged, i)
    /\ UNCHANGED <<shards, partial>>
    /\ UNCHANGED <<pmiVars, requestVars, scraperVars>>

NextShards ==
    \/ \E i \in 1..Len(shards) : CountShard(i)
    \/ \E i \in 1..Len(shards) : MergeShard(i)

SpecShards == InitShards /\ [][NextShards]_vars
----------------------------------------------------------------------------
(* make_request of reddit_scraper_no_api.py                                *)

\* Timing settings, in seconds.
DELAY_NORMAL == <<15, 20>>

DELAY_FAST == <<3, 5>>

RETRY_WAIT == 120

MAX_RETRIES == 3

\* What requests.get, raise_for_status and json can come to: a 2xx answer with
\* a JSON body, status 429, another 4xx/5xx status, a body that is not JSON,
\* no answer within the timeout, a connection failure, and the interpreter
\* being interrupted while the request is under way.
Responses ==
    { "ok", "rate_limited", "http_error", "bad_json", "timeout",
      "connection_error", "interrupt" }

\* The exception a response raises inside the try block, "none" without one.
Raises(resp) ==
    CASE resp = "http_error"       -> "HTTPError"
      [] resp = "bad_json"         -> "JSONDecodeError"
      [] resp = "timeout"          -> "Timeout"
      [] resp = "connection_error" -> "ConnectionError"
      [] resp = "interrupt"        -> "KeyboardInterrupt"
      [] OTHER                     -> "none"

\* The exceptions of requests.exceptions, all of them subclasses of
\* RequestException, and the one that json() raises.
RequestErrors == {"HTTPError", "JSONDecodeError", "Timeout", "ConnectionError"}

\* except requests.exceptions.Timeout
IsTimeout(exc) == exc = "Timeout"

\* except Exception: KeyboardInterrupt derives from BaseException only.
IsException(exc) == exc \in RequestErrors

\* Variant: one retry more than MAX_RETRIES.
CanRetry_OneMore(count) == count <= MAX_RETRIES

\* retry_count < MAX_RETRIES
CanRetry(count) == count < MAX_RETRIES

InitRequest ==
    /\ PipelineOff
    /\ ShardsIdle
    /\ RequestIdle
    /\ ScrapersIdle

\* The return of the innermost call, which every enclosing call returns as is.
Return(value) ==
    /\ rq_pc' = "returned"
    /\ rq_result' = value
    /\ UNCHANGED retry_count

\* search_subreddit or fetch_post_comments calls make_request(url, params,
\* delay_range), retry_count taking its default.
Call(delay_range) ==
    /\ rq_pc = "idle"
    /\ rq_pc' = "sleep"
    /\ rq_delay_range' = delay_range
    /\ retry_count' = 0
    /\ UNCHANGED <<rq_events, rq_result>>
    /\ UNCHANGED <<pmiVars, shardVars, scraperVars>>

\* A sleep cut short by an interrupt: KeyboardInterrupt is no Exception, so
\* no except clause holds it and it leaves make_request.
Interrupted ==
    /\ rq_pc' = "raised"
    /\ rq_result' = "KeyboardInterrupt"
    /\ UNCHANGED <<rq_events, retry_count>>

\* time.sleep(random.uniform(*delay_range)): the sleep lasts any time
\* between the two ends of the range, which is what the event records.
SleepDelay(interrupt) ==
    /\ rq_pc = "sleep"
    /\ IF interrupt
       THEN Interrupted
       ELSE /\ rq_events' = Append(rq_events, [op |-> "sleep", arg |-> rq_delay_range])
            /\ rq_pc' = "get"
            /\ UNCHANGED <<retry_count, rq_result>>
    /\ UNCHANGED rq_delay_range
    /\ UNCHANGED <<pmiVars, shardVars, scraperVars>>

\* The try block and its except clauses, up to the return or the next call.
Get(resp) ==
    /\ rq_pc = "get"
    /\ rq_events' = Append(rq_events, [op |-> "get", arg |-> resp])
    /\ LET exc == Raises(resp)
       IN  IF exc = "none"
           THEN IF resp = "rate_limited"
                THEN IF CanRetry(retry_count)
                     THEN /\ rq_pc' = "retry_wait"
                          /\ UNCHANGED <<retry_count, rq_result>>
                     ELSE Return("None")
                ELSE Return("json")
           ELSE IF IsTimeout(exc)
                THEN IF CanRetry(retry_count)
                     THEN /\ rq_pc' = "sleep"
                          /\ retry_count' = retry_count + 1
                          /\ UNCHANGED rq_result
                     ELSE Return("None")
                ELSE IF IsException(exc)
                     THEN Return("None")
                     ELSE /\ rq_pc' = "raised"
                          /\ rq_result' = exc
                          /\ UNCHANGED retry_count
    /\ UNCHANGED rq_delay_range
    /\ UNCHANGED <<pmiVars, shardVars, scraperVars>>

\* time.sleep(RETRY_WAIT), then make_request(..., retry_count + 1).
RetryWait(interrupt) ==
    /\ rq_pc = "retry_wait"
    /\ IF interrupt
       THEN Interrupted
       ELSE /\ rq_events' = Append(rq_events, [op |-> "sleep",
                                               arg |-> <<RETRY_WAIT, RETRY_WAIT>>])
            /\ retry_count' = retry_count + 1
            /\ rq_pc' = "sleep"
            /\ UNCHANGED rq_result
    /\ UNCHANGED rq_delay_range
    /\ UNCHANGED <<pmiVars, shardVars, scraperVars>>

\* The steps of a call under way.
RequestStep ==
    \/ \E interrupt \in BOOLEAN : SleepDelay(interrupt)
    \/ \E resp \in Responses : Get(resp)
    \/ \E interrupt \in BOOLEAN : RetryWait(interrupt)

NextRequest ==
    \/ \E delay_range \in {DELAY_NORMAL, DELAY_FAST} : Call(delay_range)
    \/ RequestStep

\* A call under way goes on: every sleep ends, and requests.get answers or
\* raises within its timeout.
SpecRequest == InitRequest /\ [][NextRequest]_vars /\ WF_vars(RequestStep)
----------------------------------------------------------------------------
(* fetch_reviews_api of scraping_steam.py                                  *)

\* range(5): the attempts of the retry loop.
Attempts == 5

SecondsPerDay == 86400

\* A number below 100 in two digits.
TwoDigits(n) ==
    LET digit == <<"0", "1", "2", "3", "4", "5", "6", "7", "8", "9">>
    IN  <<digit[(n \div 10) + 1], digit[(n % 10) + 1]>>

\* datetime.MINYEAR and datetime.MAXYEAR: the years a datetime can hold.
MinYear == 1

MaxYear == 9999

\* A number in decimal digits, as %Y writes a year.
RECURSIVE Decimal(_)
Decimal(n) ==
    LET digit == <<"0", "1", "2", "3", "4", "5", "6", "7", "8", "9">>
    IN  IF n < 10 THEN <<digit[n + 1]>>
        ELSE Append(Decimal(n \div 10), digit[(n % 10) + 1])

\* %B: the full names of the months.
MonthName ==
    << <<"J", "a", "n", "u", "a", "r", "y">>,
       <<"F", "e", "b", "r", "u", "a", "r", "y">>,
       <<"M", "a", "r", "c", "h">>,
       <<"A", "p", "r", "i", "l">>,
       <<"M", "a", "y">>,
       <<"J", "u", "n", "e">>,
       <<"J", "u", "l", "y">>,
       <<"A", "u", "g", "u", "s", "t">>,
       <<"S", "e", "p", "t", "e", "m", "b", "e", "r">>,
       <<"O", "c", "t", "o", "b", "e", "r">>,
       <<"N", "o", "v", "e", "m", "b", "e", "r">>,
       <<"D", "e", "c", "e", "m", "b", "e", "r">> >>

\* The date of the proleptic Gregorian calendar that lies  days  days after
\* 1 January 1970, counted in years of 365 or 366 days from 1 March.
UtcDate(days) ==
    LET z     == days + 719468
        era   == z \div 146097
        doe   == z - era * 146097
        yoe   == (doe - (doe \div 1460) + (doe \div 36524) - (doe \div 146096)) \div 365
        doy   == doe - (365 * yoe + (yoe \div 4) - (yoe \div 100))
        mp    == (5 * doy + 2) \div 153
        month == IF mp < 10 THEN mp + 3 ELSE mp - 9
    IN  [year  |-> yoe + era * 400 + (IF month <= 2 THEN 1 ELSE 0),
         month |-> month,
         day   |-> doy - ((153 * mp + 2) \div 5) + 1]

\* A value of the key timestamp_created: the integer
\* days * SecondsPerDay + seconds, written in two parts because it may lie
\* beyond the integers of the model, or a value that is no number (null, a
\* string).
Number(days, seconds) == [number |-> TRUE, days |-> days, seconds |-> seconds]

NotANumber == [number |-> FALSE, days |-> 0, seconds |-> 0]

\* convert_timestamp: datetime.utcfromtimestamp(ts).strftime("%d %B %Y");
\* the except clause gives the empty string for a value that is no number
\* and for a time outside the years of a datetime.
convert_timestamp(ts) ==
    IF ~ts.number THEN <<>>
    ELSE LET dt == UtcDate(ts.days + (ts.seconds \div SecondsPerDay))
         IN  IF dt.year < MinYear \/ dt.year > MaxYear THEN <<>>
             ELSE TwoDigits(dt.day) \o <<" ">> \o MonthName[dt.month]
                      \o <<" ">> \o Decimal(dt.year)

\* .replace("\r", " ").replace("\n", " ")
ReplaceNewlines(text) ==
    [i \in 1..Len(text) |-> IF text[i] \in {"\r", "\n"} THEN " " ELSE text[i]]

\* The dictionary appended to all_reviews for a review r.
ReviewRow(r) ==
    [user        |-> r.steamid,
     date        |-> convert_timestamp(r.timestamp_created),
     comment     |-> ReplaceNewlines(r.review),
     helpful     |-> r.votes_up,
     recommended |-> IF r.voted_up THEN "Recommended" ELSE "Not Recommended"]

\* The reviews the server holds, in the order in which it sends them.
ServerReview(i) ==
    [steamid           |-> i,
     timestamp_created |-> CASE i = 1 -> Number(0, 1711497600)
                             [] i = 2 -> Number(0, -1)
                             [] i = 3 -> NotANumber
                             [] OTHER -> Number(2932897, i),
     review            |-> IF i % 2 = 1 THEN <<"o", "k", "\n", "g", "o">>
                                        ELSE <<"n", "o", "\r", "\n">>,
     votes_up          |-> i,
     voted_up          |-> i % 2 = 0]

\* The most reviews a server holds, and the most it sends in one page.
MaxReviews == 3

MaxPerPage == 2

\* The cursors of an answered page: an opaque token, an empty one, none.
Cursors == {"next", "", "None"}

\* Variant: a sixth attempt.
MoreAttempts_OneMore(done) == done <= Attempts

\* for attempt in range(5): another attempt follows  done  failed ones; the
\* loop variable keeps its last value, 4, when there is none.
MoreAttempts(done) == done < Attempts

\* not reviews
NoReviews(reviews) == reviews = <<>>
\* Variant: a missing cursor does not end the loop.
NoCursor_Ignored(c) == FALSE

\* not cursor: None and the empty string are both false.
NoCursor(c) == c \in {"None", ""}

InitSteam ==
    /\ PipelineOff
    /\ ShardsIdle
    /\ RequestIdle
    /\ ScrollIdle
    /\ RedditIdle
    /\ st_pc = "idle"
    /\ cursor = "*"
    /\ all_reviews = <<>>
    /\ page = 1
    /\ attempt = 0
    /\ data = NoData
    /\ st_total \in 0..MaxReviews
    /\ st_served = 0
    /\ st_requests = <<0>>
    /\ st_failures = 0

\* fetch_reviews_api(appid) is called: lines 18 to 21.
FetchReviews ==
    /\ st_pc = "idle"
    /\ st_pc' = "attempt"
    /\ cursor' = "*"
    /\ all_reviews' = <<>>
    /\ page' = 1
    /\ attempt' = 0
    /\ UNCHANGED <<data, st_total, st_served, st_requests, st_failures>>
    /\ UNCHANGED <<pmiVars, shardVars, requestVars, scrollVars, redditVars>>

\* The requests of the current page, one more.
Requested == [st_requests EXCEPT ![page] = st_requests[page] + 1]

\* A request that raises (no answer within the timeout, an error status, a
\* body that is not JSON): the except clause, time.sleep(3), then the next
\* attempt or, after the last one, the else clause of the for loop.
AttemptFails ==
    /\ st_pc = "attempt"
    /\ st_requests' = Requested
    /\ st_failures' = st_failures + 1
    /\ IF MoreAttempts(attempt + 1)
       THEN /\ attempt' = attempt + 1
            /\ st_pc' = "attempt"
       ELSE /\ st_pc' = "returned"
            /\ UNCHANGED attempt
    /\ UNCHANGED <<cursor, all_reviews, page, data, st_total, st_served>>
    /\ UNCHANGED <<pmiVars, shardVars, requestVars, scrollVars, redditVars>>

\* A request answered with a JSON object holding  count  further reviews and
\* a cursor: the rest of the loop body, up to the next page or the return.
AttemptSucceeds(count, next_cursor) ==
    /\ st_pc = "attempt"
    /\ count <= st_total - st_served
    /\ st_failures' = 0
    /\ LET reviews == [k \in 1..count |-> ServerReview(st_served + k)]
       IN  /\ data' = [reviews |-> reviews, cursor |-> next_cursor, parsed |-> TRUE]
           /\ st_served' = st_served + count
           /\ IF NoReviews(reviews)
              THEN /\ st_pc' = "returned"
                   /\ st_requests' = Requested
                   /\ UNCHANGED <<all_reviews, cursor, page, attempt>>
              ELSE /\ all_reviews' = all_reviews \o [k \in 1..count |-> ReviewRow(reviews[k])]
                   /\ cursor' = next_cursor
                   /\ IF NoCursor(next_cursor)
                      THEN /\ st_pc' = "returned"
                           /\ st_requests' = Requested
                           /\ UNCHANGED <<page, attempt>>
                      ELSE /\ st_pc' = "attempt"
                           /\ st_requests' = Append(Requested, 0)
                           /\ page' = page + 1
                           /\ attempt' = 0
    /\ UNCHANGED st_total
    /\ UNCHANGED <<pmiVars, shardVars, requestVars, scrollVars, redditVars>>

\* A request answered with JSON that is not an object (null, a list):
\* data.get raises AttributeError outside the try block.
AttemptNotObject ==
    /\ st_pc = "attempt"
    /\ st_requests' = Requested
    /\ st_failures' = 0
    /\ data' = [reviews |-> <<>>, cursor |-> "None", parsed |-> FALSE]
    /\ st_pc' = "raised"
    /\ UNCHANGED <<cursor, all_reviews, page, attempt, st_total, st_served>>
    /\ UNCHANGED <<pmiVars, shardVars, requestVars, scrollVars, redditVars>>

\* The steps of a call under way.
SteamStep ==
    \/ AttemptFails
    \/ \E count \in 0..MaxPerPage, next_cursor \in Cursors :
         AttemptSucceeds(count, next_cursor)
    \/ AttemptNotObject

NextSteam ==
    \/ FetchReviews
    \/ SteamStep

\* A call under way goes on: requests.get answers or raises within its
\* timeout and the sleeps end.
SpecSteam == InitSteam /\ [][NextSteam]_vars /\ WF_vars(SteamStep)
----------------------------------------------------------------------------
(* The scroll loop of scrape_youtube_comments of scraping_yt_comments.py   *)

\* stop after 30 scrolls with no growth
StagnantLimit == 30

\* The values of max_scroll, and the most comment threads a page loads.
MaxScroll == 32

MaxThreads == 2

\* Variant: one stagnant scroll more before the loop stops.
StagnantEnough_Late(count) == count > StagnantLimit

\* stagnant >= 30
StagnantEnough(count) == count >= StagnantLimit

InitScroll ==
    /\ PipelineOff
    /\ ShardsIdle
    /\ RequestIdle
    /\ SteamIdle
    /\ ScrollIdle
    /\ RedditIdle

\* scrape_youtube_comments(url, max_scroll), up to the loop. With max_scroll
\* at 0 the loop body never runs, and the loop over  comments  that follows
\* it raises UnboundLocalError: the name is bound only in the body.
ScrapeComments(limit) ==
    /\ sc_pc = "idle"
    /\ max_scroll' = limit
    /\ last_len' = 0
    /\ stagnant' = 0
    /\ IF limit > 0
       THEN /\ sc_pc' = "scroll"
            /\ UNCHANGED sc_stop
       ELSE /\ sc_pc' = "raised"
            /\ sc_stop' = "exhausted"
    /\ UNCHANGED <<scrolls, comments_len, sc_same>>
    /\ UNCHANGED <<pmiVars, shardVars, requestVars, steamVars, redditVars>>

\* One pass of the loop body: the scroll, then find_elements gives  loaded
\* comment threads.
Scroll(loaded) ==
    /\ sc_pc = "scroll"
    /\ scrolls < max_scroll
    /\ scrolls' = scrolls + 1
    /\ comments_len' = loaded
    /\ sc_same' = IF scrolls = 0 THEN 0
                  ELSE IF loaded = comments_len THEN sc_same + 1 ELSE 0
    /\ LET count == IF loaded = last_len THEN stagnant + 1 ELSE 0
       IN  /\ stagnant' = count
           /\ IF StagnantEnough(count)
              THEN /\ sc_pc' = "extract"
                   /\ sc_stop' = "break"
                   /\ UNCHANGED last_len
              ELSE /\ last_len' = loaded
                   /\ IF scrolls + 1 < max_scroll
                      THEN UNCHANGED <<sc_pc, sc_stop>>
                      ELSE /\ sc_pc' = "extract"
                           /\ sc_stop' = "exhausted"
    /\ UNCHANGED max_scroll
    /\ UNCHANGED <<pmiVars, shardVars, requestVars, steamVars, redditVars>>

NextScroll ==
    \/ \E limit \in {0, 2, MaxScroll} : ScrapeComments(limit)
    \/ \E loaded \in 0..MaxThreads : Scroll(loaded)

SpecScroll == InitScroll /\ [][NextScroll]_vars
----------------------------------------------------------------------------
(* The filters and main of reddit_scraper_no_api.py                        *)

REQUIRED_TERMS == { <<"s", "h", "a", "d", "o", "w", "s">>, <<"n", "a", "o", "e">>, <<"y", "a", "s", "u", "k", "e">> }

MIN_TEXT_LENGTH == 100

review_indicators ==
    { <<"g", "a", "m", "e">>, <<"p", "l", "a", "y">>, <<"s", "t", "o", "r", "y">>,
      <<"g", "a", "m", "e", "p", "l", "a", "y">>, <<"c", "o", "m", "b", "a", "t">>, <<"s", "t", "e", "a", "l", "t", "h">>,
      <<"t", "h", "i", "n", "k">>, <<"f", "e", "e", "l">>, <<"o", "p", "i", "n", "i", "o", "n">>,
      <<"r", "e", "v", "i", "e", "w">>, <<"r", "e", "c", "o", "m", "m", "e", "n", "d">>, <<"w", "o", "r", "t", "h">>,
      <<"g", "o", "o", "d">>, <<"b", "a", "d">>, <<"g", "r", "e", "a", "t">>,
      <<"t", "e", "r", "r", "i", "b", "l", "e">>, <<"l", "o", "v", "e">>, <<"h", "a", "t", "e">>,
      <<"e", "n", "j", "o", "y">>, <<"u", "b", "i", "s", "o", "f", "t">>, <<"a", "s", "s", "a", "s", "s", "i", "n">>,
      <<"c", "r", "e", "e", "d">> }

\* matches >= 3
MinMatches == 3

\* [:5000]
MaxCommentLength == 5000

\* Python's None, where a string is expected.
None == <<"None">>

\* A function that returns a record or None gives a sequence of one record
\* or of none.
NoRecord == <<>>

\* term in text
Contains(text, term) ==
    \E k \in 1..(Len(text) - Len(term) + 1) : SubSeq(text, k, k + Len(term) - 1) = term

\* The characters a string of this module holds as themselves, in the order
\* of their code points from 32 (the space) to 126 (the tilde); the grave
\* accent is not one of them and stands by its code point.
Printable ==
    <<
       " ", "!", "\"", "#", "$", "%", "&", "'", "(", ")", "*", "+", ",", "-", ".", "/",
       "0", "1", "2", "3", "4", "5", "6", "7", "8", "9", ":", ";", "<", "=", ">", "?",
       "@", "A", "B", "C", "D", "E", "F", "G", "H", "I", "J", "K", "L", "M", "N", "O",
       "P", "Q", "R", "S", "T", "U", "V", "W", "X", "Y", "Z", "[", "\\", "]", "^", "_",
       "U+0060", "a", "b", "c", "d", "e", "f", "g", "h", "i", "j", "k", "l", "m", "n", "o",
       "p", "q", "r", "s", "t", "u", "v", "w", "x", "y", "z", "{", "|", "}", "~" >>

\* The value of a string of hexadecimal digits.
RECURSIVE HexValue(_)
HexValue(digits) ==
    IF Len(digits) = 0 THEN 0
    ELSE LET last == SubSeq(digits, Len(digits), Len(digits))
             digit == CHOOSE d \in 0..15 :
                          last \in {SubSeq("0123456789ABCDEF", d + 1, d + 1),
                                    SubSeq("0123456789abcdef", d + 1, d + 1)}
         IN  16 * HexValue(SubSeq(digits, 1, Len(digits) - 1)) + digit

\* A number in hexadecimal digits, of the given width at least.
RECURSIVE Hex(_, _)
Hex(n, width) ==
    IF n = 0 /\ width <= 0 THEN ""
    ELSE Hex(n \div 16, width - 1) \o SubSeq("0123456789ABCDEF", (n % 16) + 1, (n % 16) + 1)

\* The code point of a character.
CodePoint(c) ==
    CASE c = "\t"   -> 9
      [] c = "\n"   -> 10
      [] c = "\f"   -> 12
      [] c = "\r"   -> 13
      [] Len(c) = 1 -> 31 + (CHOOSE i \in 1..Len(Printable) : Printable[i] = c)
      [] OTHER      -> HexValue(SubSeq(c, 3, Len(c)))

\* The character of a code point.
Character(n) ==
    CASE n = 9  -> "\t"
      [] n = 10 -> "\n"
      [] n = 12 -> "\f"
      [] n = 13 -> "\r"
      [] n \in 32..126 -> Printable[n - 31]
      [] OTHER  -> "U+" \o Hex(n, 4)

\* The lower-case mappings of the Unicode character database (version 14.0,
\* that of Python 3.11) that give one character, as <<first, last, step,
\* offset>>: every step-th code point from first to last lowers to itself
\* plus offset.  Every other code point lowers to itself, but for U+0130 and,
\* in a word, U+03A3.
LowerRanges ==
    <<
       <<65, 90, 1, 32>>, <<192, 214, 1, 32>>, <<216, 222, 1, 32>>, <<256, 302, 2, 1>>,
       <<306, 310, 2, 1>>, <<313, 327, 2, 1>>, <<330, 374, 2, 1>>, <<376, 376, 1, -121>>,
       <<377, 381, 2, 1>>, <<385, 385, 1, 210>>, <<386, 388, 2, 1>>, <<390, 390, 1, 206>>,
       <<391, 391, 1, 1>>, <<393, 394, 1, 205>>, <<395, 395, 1, 1>>, <<398, 398, 1, 79>>,
       <<399, 399, 1, 202>>, <<400, 400, 1, 203>>, <<401, 401, 1, 1>>, <<403, 403, 1, 205>>,
       <<404, 404, 1, 207>>, <<406, 406, 1, 211>>, <<407, 407, 1, 209>>, <<408, 408, 1, 1>>,
       <<412, 412, 1, 211>>, <<413, 413, 1, 213>>, <<415, 415, 1, 214>>, <<416, 420, 2, 1>>,
       <<422, 422, 1, 218>>, <<423, 423, 1, 1>>, <<425, 425, 1, 218>>, <<428, 428, 1, 1>>,
       <<430, 430, 1, 218>>, <<431, 431, 1, 1>>, <<433, 434, 1, 217>>, <<435, 437, 2, 1>>,
       <<439, 439, 1, 219>>, <<440, 440, 1, 1>>, <<444, 444, 1, 1>>, <<452, 452, 1, 2>>,
       <<453, 453, 1, 1>>, <<455, 455, 1, 2>>, <<456, 456, 1, 1>>, <<458, 458, 1, 2>>,
       <<459, 475, 2, 1>>, <<478, 494, 2, 1>>, <<497, 497, 1, 2>>, <<498, 500, 2, 1>>,
       <<502, 502, 1, -97>>, <<503, 503, 1, -56>>, <<504, 542, 2, 1>>, <<544, 544, 1, -130>>,
       <<546, 562, 2, 1>>, <<570, 570, 1, 10795>>, <<571, 571, 1, 1>>, <<573, 573, 1, -163>>,
       <<574, 574, 1, 10792>>, <<577, 577, 1, 1>>, <<579, 579, 1, -195>>, <<580, 580, 1, 69>>,
       <<581, 581, 1, 71>>, <<582, 590, 2, 1>>, <<880, 882, 2, 1>>, <<886, 886, 1, 1>>,
       <<895, 895, 1, 116>>, <<902, 902, 1, 38>>, <<904, 906, 1, 37>>, <<908, 908, 1, 64>>,
       <<910, 911, 1, 63>>, <<913, 929, 1, 32>>, <<932, 939, 1, 32>>, <<975, 975, 1, 8>>,
       <<984, 1006, 2, 1>>, <<1012, 1012, 1, -60>>, <<1015, 1015, 1, 1>>, <<1017, 1017, 1, -7>>,
       <<1018, 1018, 1, 1>>, <<1021, 1023, 1, -130>>, <<1024, 1039, 1, 80>>, <<1040, 1071, 1, 32>>,
       <<1120, 1152, 2, 1>>, <<1162, 1214, 2, 1>>, <<1216, 1216, 1, 15>>, <<1217, 1229, 2, 1>>,
       <<1232, 1326, 2, 1>>, <<1329, 1366, 1, 48>>, <<4256, 4293, 1, 7264>>, <<4295, 4295, 1, 7264>>,
       <<4301, 4301, 1, 7264>>, <<5024, 5103, 1, 38864>>, <<5104, 5109, 1, 8>>, <<7312, 7354, 1, -3008>>,
       <<7357, 7359, 1, -3008>>, <<7680, 7828, 2, 1>>, <<7838, 7838, 1, -7615>>, <<7840, 7934, 2, 1>>,
       <<7944, 7951, 1, -8>>, <<7960, 7965, 1, -8>>, <<7976, 7983, 1, -8>>, <<7992, 7999, 1, -8>>,
       <<8008, 8013, 1, -8>>, <<8025, 8031, 2, -8>>, <<8040, 8047, 1, -8>>, <<8072, 8079, 1, -8>>,
       <<8088, 8095, 1, -8>>, <<8104, 8111, 1, -8>>, <<8120, 8121, 1, -8>>, <<8122, 8123, 1, -74>>,
       <<8124, 8124, 1, -9>>, <<8136, 8139, 1, -86>>, <<8140, 8140, 1, -9>>, <<8152, 8153, 1, -8>>,
       <<8154, 8155, 1, -100>>, <<8168, 8169, 1, -8>>, <<8170, 8171, 1, -112>>, <<8172, 8172, 1, -7>>,
       <<8184, 8185, 1, -128>>, <<8186, 8187, 1, -126>>, <<8188, 8188, 1, -9>>, <<8486, 8486, 1, -7517>>,
       <<8490, 8490, 1, -8383>>, <<8491, 8491, 1, -8262>>, <<8498, 8498, 1, 28>>, <<8544, 8559, 1, 16>>,
       <<8579, 8579, 1, 1>>, <<9398, 9423, 1, 26>>, <<11264, 11311, 1, 48>>, <<11360, 11360, 1, 1>>,
       <<11362, 11362, 1, -10743>>, <<11363, 11363, 1, -3814>>, <<11364, 11364, 1, -10727>>, <<11367, 11371, 2, 1>>,
       <<11373, 11373, 1, -10780>>, <<11374, 11374, 1, -10749>>, <<11375, 11375, 1, -10783>>, <<11376, 11376, 1, -10782>>,
       <<11378, 11378, 1, 1>>, <<11381, 11381, 1, 1>>, <<11390, 11391, 1, -10815>>, <<11392, 11490, 2, 1>>,
       <<11499, 11501, 2, 1>>, <<11506, 11506, 1, 1>>, <<42560, 42604, 2, 1>>, <<42624, 42650, 2, 1>>,
       <<42786, 42798, 2, 1>>, <<42802, 42862, 2, 1>>, <<42873, 42875, 2, 1>>, <<42877, 42877, 1, -35332>>,
       <<42878, 42886, 2, 1>>, <<42891, 42891, 1, 1>>, <<42893, 42893, 1, -42280>>, <<42896, 42898, 2, 1>>,
       <<42902, 42920, 2, 1>>, <<42922, 42922, 1, -42308>>, <<42923, 42923, 1, -42319>>, <<42924, 42924, 1, -42315>>,
       <<42925, 42925, 1, -42305>>, <<42926, 42926, 1, -42308>>, <<42928, 42928, 1, -42258>>, <<42929, 42929, 1, -42282>>,
       <<42930, 42930, 1, -42261>>, <<42931, 42931, 1, 928>>, <<42932, 42946, 2, 1>>, <<42948, 42948, 1, -48>>,
       <<42949, 42949, 1, -42307>>, <<42950, 42950, 1, -35384>>, <<42951, 42953, 2, 1>>, <<42960, 42960, 1, 1>>,
       <<42966, 42968, 2, 1>>, <<42997, 42997, 1, 1>>, <<65313, 65338, 1, 32>>, <<66560, 66599, 1, 40>>,
       <<66736, 66771, 1, 40>>, <<66928, 66938, 1, 39>>, <<66940, 66954, 1, 39>>, <<66956, 66962, 1, 39>>,
       <<66964, 66965, 1, 39>>, <<68736, 68786, 1, 64>>, <<71840, 71871, 1, 32>>, <<93760, 93791, 1, 32>>,
       <<125184, 125217, 1, 34>> >>

\* The code points with the property Cased, as <<first, last>>.
CasedRanges ==
    <<
       <<65, 90>>, <<97, 122>>, <<170, 170>>, <<181, 181>>, <<186, 186>>, <<192, 214>>,
       <<216, 246>>, <<248, 442>>, <<444, 447>>, <<452, 659>>, <<661, 696>>, <<704, 705>>,
       <<736, 740>>, <<837, 837>>, <<880, 883>>, <<886, 887>>, <<890, 893>>, <<895, 895>>,
       <<902, 902>>, <<904, 906>>, <<908, 908>>, <<910, 929>>, <<931, 1013>>, <<1015, 1153>>,
       <<1162, 1327>>, <<1329, 1366>>, <<1376, 1416>>, <<4256, 4293>>, <<4295, 4295>>, <<4301, 4301>>,
       <<4304, 4346>>, <<4349, 4351>>, <<5024, 5109>>, <<5112, 5117>>, <<7296, 7304>>, <<7312, 7354>>,
       <<7357, 7359>>, <<7424, 7615>>, <<7680, 7957>>, <<7960, 7965>>, <<7968, 8005>>, <<8008, 8013>>,
       <<8016, 8023>>, <<8025, 8025>>, <<8027, 8027>>, <<8029, 8029>>, <<8031, 8061>>, <<8064, 8116>>,
       <<8118, 8124>>, <<8126, 8126>>, <<8130, 8132>>, <<8134, 8140>>, <<8144, 8147>>, <<8150, 8155>>,
       <<8160, 8172>>, <<8178, 8180>>, <<8182, 8188>>, <<8305, 8305>>, <<8319, 8319>>, <<8336, 8348>>,
       <<8450, 8450>>, <<8455, 8455>>, <<8458, 8467>>, <<8469, 8469>>, <<8473, 8477>>, <<8484, 8484>>,
       <<8486, 8486>>, <<8488, 8488>>, <<8490, 8493>>, <<8495, 8500>>, <<8505, 8505>>, <<8508, 8511>>,
       <<8517, 8521>>, <<8526, 8526>>, <<8544, 8575>>, <<8579, 8580>>, <<9398, 9449>>, <<11264, 11492>>,
       <<11499, 11502>>, <<11506, 11507>>, <<11520, 11557>>, <<11559, 11559>>, <<11565, 11565>>, <<42560, 42605>>,
       <<42624, 42653>>, <<42786, 42887>>, <<42891, 42894>>, <<42896, 42954>>, <<42960, 42961>>, <<42963, 42963>>,
       <<42965, 42969>>, <<42997, 42998>>, <<43000, 43002>>, <<43824, 43866>>, <<43868, 43880>>, <<43888, 43967>>,
       <<64256, 64262>>, <<64275, 64279>>, <<65313, 65338>>, <<65345, 65370>>, <<66560, 66639>>, <<66736, 66771>>,
       <<66776, 66811>>, <<66928, 66938>>, <<66940, 66954>>, <<66956, 66962>>, <<66964, 66965>>, <<66967, 66977>>,
       <<66979, 66993>>, <<66995, 67001>>, <<67003, 67004>>, <<67456, 67456>>, <<67459, 67461>>, <<67463, 67504>>,
       <<67506, 67514>>, <<68736, 68786>>, <<68800, 68850>>, <<71840, 71903>>, <<93760, 93823>>, <<119808, 119892>>,
       <<119894, 119964>>, <<119966, 119967>>, <<119970, 119970>>, <<119973, 119974>>, <<119977, 119980>>, <<119982, 119993>>,
       <<119995, 119995>>, <<119997, 120003>>, <<120005, 120069>>, <<120071, 120074>>, <<120077, 120084>>, <<120086, 120092>>,
       <<120094, 120121>>, <<120123, 120126>>, <<120128, 120132>>, <<120134, 120134>>, <<120138, 120144>>, <<120146, 120485>>,
       <<120488, 120512>>, <<120514, 120538>>, <<120540, 120570>>, <<120572, 120596>>, <<120598, 120628>>, <<120630, 120654>>,
       <<120656, 120686>>, <<120688, 120712>>, <<120714, 120744>>, <<120746, 120770>>, <<120772, 120779>>, <<122624, 122633>>,
       <<122635, 122654>>, <<125184, 125251>>, <<127280, 127305>>, <<127312, 127337>>, <<127344, 127369>> >>

\* The code points with the property Case_Ignorable, as <<first, last>>.
CaseIgnorableRanges ==
    <<
       <<39, 39>>, <<46, 46>>, <<58, 58>>, <<94, 94>>, <<96, 96>>, <<168, 168>>,
       <<173, 173>>, <<175, 175>>, <<180, 180>>, <<183, 184>>, <<688, 879>>, <<884, 885>>,
       <<890, 890>>, <<900, 901>>, <<903, 903>>, <<1155, 1161>>, <<1369, 1369>>, <<1375, 1375>>,
       <<1425, 1469>>, <<1471, 1471>>, <<1473, 1474>>, <<1476, 1477>>, <<1479, 1479>>, <<1524, 1524>>,
       <<1536, 1541>>, <<1552, 1562>>, <<1564, 1564>>, <<1600, 1600>>, <<1611, 1631>>, <<1648, 1648>>,
       <<1750, 1757>>, <<1759, 1768>>, <<1770, 1773>>, <<1807, 1807>>, <<1809, 1809>>, <<1840, 1866>>,
       <<1958, 1968>>, <<2027, 2037>>, <<2042, 2042>>, <<2045, 2045>>, <<2070, 2093>>, <<2137, 2139>>,
       <<2184, 2184>>, <<2192, 2193>>, <<2200, 2207>>, <<2249, 2306>>, <<2362, 2362>>, <<2364, 2364>>,
       <<2369, 2376>>, <<2381, 2381>>, <<2385, 2391>>, <<2402, 2403>>, <<2417, 2417>>, <<2433, 2433>>,
       <<2492, 2492>>, <<2497, 2500>>, <<2509, 2509>>, <<2530, 2531>>, <<2558, 2558>>, <<2561, 2562>>,
       <<2620, 2620>>, <<2625, 2626>>, <<2631, 2632>>, <<2635, 2637>>, <<2641, 2641>>, <<2672, 2673>>,
       <<2677, 2677>>, <<2689, 2690>>, <<2748, 2748>>, <<2753, 2757>>, <<2759, 2760>>, <<2765, 2765>>,
       <<2786, 2787>>, <<2810, 2815>>, <<2817, 2817>>, <<2876, 2876>>, <<2879, 2879>>, <<2881, 2884>>,
       <<2893, 2893>>, <<2901, 2902>>, <<2914, 2915>>, <<2946, 2946>>, <<3008, 3008>>, <<3021, 3021>>,
       <<3072, 3072>>, <<3076, 3076>>, <<3132, 3132>>, <<3134, 3136>>, <<3142, 3144>>, <<3146, 3149>>,
       <<3157, 3158>>, <<3170, 3171>>, <<3201, 3201>>, <<3260, 3260>>, <<3263, 3263>>, <<3270, 3270>>,
       <<3276, 3277>>, <<3298, 3299>>, <<3328, 3329>>, <<3387, 3388>>, <<3393, 3396>>, <<3405, 3405>>,
       <<3426, 3427>>, <<3457, 3457>>, <<3530, 3530>>, <<3538, 3540>>, <<3542, 3542>>, <<3633, 3633>>,
       <<3636, 3642>>, <<3654, 3662>>, <<3761, 3761>>, <<3764, 3772>>, <<3782, 3782>>, <<3784, 3789>>,
       <<3864, 3865>>, <<3893, 3893>>, <<3895, 3895>>, <<3897, 3897>>, <<3953, 3966>>, <<3968, 3972>>,
       <<3974, 3975>>, <<3981, 3991>>, <<3993, 4028>>, <<4038, 4038>>, <<4141, 4144>>, <<4146, 4151>>,
       <<4153, 4154>>, <<4157, 4158>>, <<4184, 4185>>, <<4190, 4192>>, <<4209, 4212>>, <<4226, 4226>>,
       <<4229, 4230>>, <<4237, 4237>>, <<4253, 4253>>, <<4348, 4348>>, <<4957, 4959>>, <<5906, 5908>>,
       <<5938, 5939>>, <<5970, 5971>>, <<6002, 6003>>, <<6068, 6069>>, <<6071, 6077>>, <<6086, 6086>>,
       <<6089, 6099>>, <<6103, 6103>>, <<6109, 6109>>, <<6155, 6159>>, <<6211, 6211>>, <<6277, 6278>>,
       <<6313, 6313>>, <<6432, 6434>>, <<6439, 6440>>, <<6450, 6450>>, <<6457, 6459>>, <<6679, 6680>>,
       <<6683, 6683>>, <<6742, 6742>>, <<6744, 6750>>, <<6752, 6752>>, <<6754, 6754>>, <<6757, 6764>>,
       <<6771, 6780>>, <<6783, 6783>>, <<6823, 6823>>, <<6832, 6862>>, <<6912, 6915>>, <<6964, 6964>>,
       <<6966, 6970>>, <<6972, 6972>>, <<6978, 6978>>, <<7019, 7027>>, <<7040, 7041>>, <<7074, 7077>>,
       <<7080, 7081>>, <<7083, 7085>>, <<7142, 7142>>, <<7144, 7145>>, <<7149, 7149>>, <<7151, 7153>>,
       <<7212, 7219>>, <<7222, 7223>>, <<7288, 7293>>, <<7376, 7378>>, <<7380, 7392>>, <<7394, 7400>>,
       <<7405, 7405>>, <<7412, 7412>>, <<7416, 7417>>, <<7468, 7530>>, <<7544, 7544>>, <<7579, 7679>>,
       <<8125, 8125>>, <<8127, 8129>>, <<8141, 8143>>, <<8157, 8159>>, <<8173, 8175>>, <<8189, 8190>>,
       <<8203, 8207>>, <<8216, 8217>>, <<8228, 8228>>, <<8231, 8231>>, <<8234, 8238>>, <<8288, 8292>>,
       <<8294, 8303>>, <<8305, 8305>>, <<8319, 8319>>, <<8336, 8348>>, <<8400, 8432>>, <<11388, 11389>>,
       <<11503, 11505>>, <<11631, 11631>>, <<11647, 11647>>, <<11744, 11775>>, <<11823, 11823>>, <<12293, 12293>>,
       <<12330, 12333>>, <<12337, 12341>>, <<12347, 12347>>, <<12441, 12446>>, <<12540, 12542>>, <<40981, 40981>>,
       <<42232, 42237>>, <<42508, 42508>>, <<42607, 42610>>, <<42612, 42621>>, <<42623, 42623>>, <<42652, 42655>>,
       <<42736, 42737>>, <<42752, 42785>>, <<42864, 42864>>, <<42888, 42890>>, <<42994, 42996>>, <<43000, 43001>>,
       <<43010, 43010>>, <<43014, 43014>>, <<43019, 43019>>, <<43045, 43046>>, <<43052, 43052>>, <<43204, 43205>>,
       <<43232, 43249>>, <<43263, 43263>>, <<43302, 43309>>, <<43335, 43345>>, <<43392, 43394>>, <<43443, 43443>>,
       <<43446, 43449>>, <<43452, 43453>>, <<43471, 43471>>, <<43493, 43494>>, <<43561, 43566>>, <<43569, 43570>>,
       <<43573, 43574>>, <<43587, 43587>>, <<43596, 43596>>, <<43632, 43632>>, <<43644, 43644>>, <<43696, 43696>>,
       <<43698, 43700>>, <<43703, 43704>>, <<43710, 43711>>, <<43713, 43713>>, <<43741, 43741>>, <<43756, 43757>>,
       <<43763, 43764>>, <<43766, 43766>>, <<43867, 43871>>, <<43881, 43883>>, <<44005, 44005>>, <<44008, 44008>>,
       <<44013, 44013>>, <<64286, 64286>>, <<64434, 64450>>, <<65024, 65039>>, <<65043, 65043>>, <<65056, 65071>>,
       <<65106, 65106>>, <<65109, 65109>>, <<65279, 65279>>, <<65287, 65287>>, <<65294, 65294>>, <<65306, 65306>>,
       <<65342, 65342>>, <<65344, 65344>>, <<65392, 65392>>, <<65438, 65439>>, <<65507, 65507>>, <<65529, 65531>>,
       <<66045, 66045>>, <<66272, 66272>>, <<66422, 66426>>, <<67456, 67461>>, <<67463, 67504>>, <<67506, 67514>>,
       <<68097, 68099>>, <<68101, 68102>>, <<68108, 68111>>, <<68152, 68154>>, <<68159, 68159>>, <<68325, 68326>>,
       <<68900, 68903>>, <<69291, 69292>>, <<69446, 69456>>, <<69506, 69509>>, <<69633, 69633>>, <<69688, 69702>>,
       <<69744, 69744>>, <<69747, 69748>>, <<69759, 69761>>, <<69811, 69814>>, <<69817, 69818>>, <<69821, 69821>>,
       <<69826, 69826>>, <<69837, 69837>>, <<69888, 69890>>, <<69927, 69931>>, <<69933, 69940>>, <<70003, 70003>>,
       <<70016, 70017>>, <<70070, 70078>>, <<70089, 70092>>, <<70095, 70095>>, <<70191, 70193>>, <<70196, 70196>>,
       <<70198, 70199>>, <<70206, 70206>>, <<70367, 70367>>, <<70371, 70378>>, <<70400, 70401>>, <<70459, 70460>>,
       <<70464, 70464>>, <<70502, 70508>>, <<70512, 70516>>, <<70712, 70719>>, <<70722, 70724>>, <<70726, 70726>>,
       <<70750, 70750>>, <<70835, 70840>>, <<70842, 70842>>, <<70847, 70848>>, <<70850, 70851>>, <<71090, 71093>>,
       <<71100, 71101>>, <<71103, 71104>>, <<71132, 71133>>, <<71219, 71226>>, <<71229, 71229>>, <<71231, 71232>>,
       <<71339, 71339>>, <<71341, 71341>>, <<71344, 71349>>, <<71351, 71351>>, <<71453, 71455>>, <<71458, 71461>>,
       <<71463, 71467>>, <<71727, 71735>>, <<71737, 71738>>, <<71995, 71996>>, <<71998, 71998>>, <<72003, 72003>>,
       <<72148, 72151>>, <<72154, 72155>>, <<72160, 72160>>, <<72193, 72202>>, <<72243, 72248>>, <<72251, 72254>>,
       <<72263, 72263>>, <<72273, 72278>>, <<72281, 72283>>, <<72330, 72342>>, <<72344, 72345>>, <<72752, 72758>>,
       <<72760, 72765>>, <<72767, 72767>>, <<72850, 72871>>, <<72874, 72880>>, <<72882, 72883>>, <<72885, 72886>>,
       <<73009, 73014>>, <<73018, 73018>>, <<73020, 73021>>, <<73023, 73029>>, <<73031, 73031>>, <<73104, 73105>>,
       <<73109, 73109>>, <<73111, 73111>>, <<73459, 73460>>, <<78896, 78904>>, <<92912, 92916>>, <<92976, 92982>>,
       <<92992, 92995>>, <<94031, 94031>>, <<94095, 94111>>, <<94176, 94177>>, <<94179, 94180>>, <<110576, 110579>>,
       <<110581, 110587>>, <<110589, 110590>>, <<113821, 113822>>, <<113824, 113827>>, <<118528, 118573>>, <<118576, 118598>>,
       <<119143, 119145>>, <<119155, 119170>>, <<119173, 119179>>, <<119210, 119213>>, <<119362, 119364>>, <<121344, 121398>>,
       <<121403, 121452>>, <<121461, 121461>>, <<121476, 121476>>, <<121499, 121503>>, <<121505, 121519>>, <<122880, 122886>>,
       <<122888, 122904>>, <<122907, 122913>>, <<122915, 122916>>, <<122918, 122922>>, <<123184, 123197>>, <<123566, 123566>>,
       <<123628, 123631>>, <<125136, 125142>>, <<125252, 125259>>, <<127995, 127999>>, <<917505, 917505>>, <<917536, 917631>>,
       <<917760, 917999>> >>

InRanges(n, ranges) ==
    \E i \in 1..Len(ranges) : ranges[i][1] <= n /\ n <= ranges[i][2]

IsCased(n) == InRanges(n, CasedRanges)

IsCaseIgnorable(n) == InRanges(n, CaseIgnorableRanges)

\* The lower case of a code point on its own: I with dot above (U+0130)
\* becomes i and a combining dot, capital sigma (U+03A3) small sigma.
ToLowerFull(n) ==
    LET hits == {i \in 1..Len(LowerRanges) :
                    /\ LowerRanges[i][1] <= n
                    /\ n <= LowerRanges[i][2]
                    /\ (n - LowerRanges[i][1]) % LowerRanges[i][3] = 0}
    IN  IF n = 304 THEN <<105, 775>>
        ELSE IF n = 931 THEN <<963>>
        ELSE IF hits = {} THEN <<n>>
        ELSE <<n + LowerRanges[CHOOSE i \in hits : TRUE][4]>>

\* str.lower() of one character.
LowerOf(c) ==
    IF Len(c) = 1 THEN <<ToLowerChar(c)>>
    ELSE LET lowered == ToLowerFull(CodePoint(c))
         IN  [k \in 1..Len(lowered) |-> Character(lowered[k])] \o <<>>

\* Whether the capital sigma at position i ends a word: a cased character
\* comes before it and none after it, characters that are Case_Ignorable
\* passed over on either side.
FinalSigma(text, i) ==
    LET before == {j \in 1..(i - 1) : ~IsCaseIgnorable(CodePoint(text[j]))}
        after  == {j \in (i + 1)..Len(text) : ~IsCaseIgnorable(CodePoint(text[j]))}
    IN  /\ before # {}
        /\ IsCased(CodePoint(text[Max(before)]))
        /\ after = {} \/ ~IsCased(CodePoint(text[Min(after)]))

\* What str.lower() puts in the place of the character at position i.
LowerAt(text, i) ==
    IF Len(text[i]) > 1 /\ CodePoint(text[i]) = 931 /\ FinalSigma(text, i)
    THEN <<Character(962)>>
    ELSE LowerOf(text[i])

\* text.lower()
LowerCase(text) ==
    LET n == Len(text)
        Longer(k) == Cardinality({j \in 1..k : Len(LowerAt(text, j)) = 2})
        Source(p) == Min({k \in 1..n : k + Longer(k) >= p})
    IN  IF \A k \in 1..n : Len(LowerAt(text, k)) = 1
        THEN [k \in 1..n |-> LowerAt(text, k)[1]]
        ELSE [p \in 1..(n + Longer(n)) |->
                LET k == Source(p)
                IN  LowerAt(text, k)[p - (k - 1) - Longer(k - 1)]]

\* The characters str.isspace() holds of, which str.strip() removes.
PyWhitespace ==
    { " ", "\t", "\n", "U+000B", "\f", "\r", "U+001C", "U+001D", "U+001E",
      "U+001F", "U+0085", "U+00A0", "U+1680", "U+2000", "U+2001", "U+2002",
      "U+2003", "U+2004", "U+2005", "U+2006", "U+2007", "U+2008", "U+2009",
      "U+200A", "U+2028", "U+2029", "U+202F", "U+205F", "U+3000" }

\* str.strip(): whitespace removed at both ends.
Strip(text) ==
    LET keep == {k \in 1..Len(text) : text[k] \notin PyWhitespace}
    IN  IF keep = {} THEN <<>> ELSE SubSeq(text, Min(keep), Max(keep))

\* text[:5000]
Truncate(text) == SubSeq(text, 1, Min({Len(text), MaxCommentLength}))

contains_required_terms(text) ==
    LET text_lower == LowerCase(text)
    IN  \E term \in REQUIRED_TERMS : Contains(text_lower, LowerCase(term))
\* Variant: two indicators are enough.
is_review_like_TwoMatches(text) ==
    /\ Len(text) >= MIN_TEXT_LENGTH
    /\ LET text_lower == LowerCase(text)
       IN  Cardinality({ind \in review_indicators : Contains(text_lower, ind)}) >= 2

is_review_like(text) ==
    IF Len(text) < MIN_TEXT_LENGTH THEN FALSE
    ELSE LET text_lower == LowerCase(text)
             matches == Cardinality({ind \in review_indicators :
                                       Contains(text_lower, ind)})
         IN  matches >= MinMatches

\* f"{title} {text}"
Combined(title, text) == title \o <<" ">> \o text

\* parse_post: the record of a post, None for a post that a filter rejects.
\* The date column, which depends on the clock and the time zone of the
\* machine, is left out of the records.
parse_post(post_data) ==
    LET title == post_data.title
        text == post_data.selftext
        combined == Combined(title, text)
    IN  IF ~contains_required_terms(combined) THEN NoRecord
        ELSE IF Len(text) < MIN_TEXT_LENGTH THEN NoRecord
        ELSE IF ~is_review_like(combined) THEN NoRecord
        ELSE << [user    |-> post_data.author,
                 comment |-> Truncate(Strip(<<"[">> \o title \o <<"]", " ">> \o text)),
                 score   |-> post_data.score,
                 type    |-> "post"] >>

\* parse_comment
parse_comment(comment_data) ==
    LET text == comment_data.body
    IN  IF text = None THEN NoRecord
        ELSE IF ~contains_required_terms(text) THEN NoRecord
        ELSE IF Len(text) < MIN_TEXT_LENGTH THEN NoRecord
        ELSE IF ~is_review_like(text) THEN NoRecord
        ELSE << [user    |-> comment_data.author,
                 comment |-> Truncate(text),
                 score   |-> comment_data.score,
                 type    |-> "comment"] >>

\* extract_comments: the records of the comments of a listing and, after
\* each, those of its replies.
RECURSIVE extract_comments(_)
extract_comments(children) ==
    IF children = <<>> THEN <<>>
    ELSE LET child == Head(children)
             own == IF child.kind # "t1" THEN <<>> ELSE parse_comment(child)
             below == IF child.kind # "t1" THEN <<>>
                      ELSE extract_comments(child.replies)
         IN  own \o below \o extract_comments(Tail(children))

\* A text filled with x up to a given length.
Pad(text, length) == text \o Times(<<"x">>, length - Len(text))

\* A comment of a post: kind t1, or a "more" stub without a body.
Comment(kind, author, score, body, replies) ==
    [kind |-> kind, author |-> author, score |-> score, body |-> body,
     replies |-> replies]

\* "Yasuke: I love the story and the combat", 120 characters: kept.
CommentKept ==
    Comment("t1", "ann", 7, Pad(<<"Y", "a", "s", "u", "k", "e", ":", " ", "I", " ", "l", "o", "v", "e", " ", "t", "h", "e", " ", "s", "t", "o", "r", "y", " ", "a", "n", "d", " ", "t", "h", "e", " ", "c", "o", "m", "b", "a", "t", " ">>, 120), <<>>)

\* The same words without a required term: rejected.
CommentNoTerm ==
    Comment("t1", "bob", 9, Pad(<<"I", " ", "l", "o", "v", "e", " ", "t", "h", "e", " ", "s", "t", "o", "r", "y", " ", "a", "n", "d", " ", "t", "h", "e", " ", "c", "o", "m", "b", "a", "t", " ">>, 120), <<>>)

\* A required term and three indicators in 99 characters: rejected.
CommentShort ==
    Comment("t1", "cat", 5, Pad(<<"n", "a", "o", "e", " ", "s", "t", "o", "r", "y", " ", "c", "o", "m", "b", "a", "t", " ", "s", "t", "e", "a", "l", "t", "h", " ">>, 99), <<>>)

\* The same in exactly 100 characters: kept.
CommentHundred ==
    Comment("t1", "dan", 4, Pad(<<"n", "a", "o", "e", " ", "s", "t", "o", "r", "y", " ", "c", "o", "m", "b", "a", "t", " ", "s", "t", "e", "a", "l", "t", "h", " ">>, 100), <<>>)

\* A required term and two indicators: rejected.
CommentTwoMatches ==
    Comment("t1", "eve", 8, Pad(<<"S", "h", "a", "d", "o", "w", "s", " ", "h", "a", "s", " ", "a", " ", "g", "o", "o", "d", " ", "s", "t", "o", "r", "y", " ">>, 120), <<>>)

\* "GAMEPLAY" holds game, play and gameplay: kept.
CommentGameplay ==
    Comment("t1", "fay", 3, Pad(<<"S", "H", "A", "D", "O", "W", "S", " ", "G", "A", "M", "E", "P", "L", "A", "Y", " ">>, 110), <<>>)

\* The only required term written with the Kelvin sign for its K, "think"
\* likewise: kept, since lower() turns the sign into k.
CommentKelvin ==
    Comment("t1", "kay", 6,
            Pad(<<"Y", "A", "S", "U">> \o <<"U+212A">> \o <<"E", ":", " ", "I", " ", "T", "H", "I", "N">> \o <<"U+212A">>
                \o <<" ", "i", "t", " ", "i", "s", " ", "g", "o", "o", "d", " ", "a", "n", "d", " ", "b", "a", "d", " ">>, 120), <<>>)

\* A deleted comment (body null) and a stub of kind "more".
CommentDeleted == Comment("t1", "gus", 1, None, <<CommentGameplay>>)

CommentMore == Comment("more", "hal", 0, None, <<CommentKept>>)

\* A rejected comment whose reply is kept.
CommentThread == Comment("t1", "ian", 2, Pad(<<"n", "o">>, 10), <<CommentHundred, CommentShort>>)

Post(author, score, title, selftext, permalink, children) ==
    [author |-> author, score |-> score, title |-> title, selftext |-> selftext,
     permalink |-> permalink, children |-> children]

\* The term in the title, the indicators in a body of 100 characters that
\* ends in a form feed: kept, the form feed stripped from the record, and its
\* comments are fetched.
PostKept ==
    Post("joe", 50, <<"A", "C", " ", "S", "h", "a", "d", "o", "w", "s", " ", "r", "e", "v", "i", "e", "w">>,
         Pad(<<"G", "r", "e", "a", "t", " ", "g", "a", "m", "e", ",", " ", "w", "e", "a", "k", " ", "s", "t", "o", "r", "y", ".", " ">>, 99) \o <<"\f">>, "/r/a/1",
         <<CommentKept, CommentNoTerm, CommentThread, CommentMore>>)

\* The term in the title and a body of 99 characters: rejected, though its
\* comments are fetched.
PostShortBody ==
    Post("kim", 40, <<"Y", "A", "S", "U", "K", "E", ":", " ", "i", "s", " ", "t", "h", "e", " ", "g", "a", "m", "e", " ", "w", "o", "r", "t", "h", " ", "i", "t", ",", " ", "w", "h", "a", "t", " ", "d", "o", " ", "y", "o", "u", " ", "t", "h", "i", "n", "k">>,
         Pad(<<"I", " ", "e", "n", "j", "o", "y", " ", "t", "h", "e", " ", "c", "o", "m", "b", "a", "t", " ">>, 99), "/r/a/2",
         <<CommentTwoMatches, CommentDeleted, CommentShort, CommentKelvin>>)

\* The term in the body only: kept, and its comments are not fetched.
PostTermInBody ==
    Post("lee", 30, <<"M", "y", " ", "o", "p", "i", "n", "i", "o", "n">>,
         Pad(<<"N", "a", "o", "e", " ", "f", "e", "e", "l", "s", " ", "g", "r", "e", "a", "t", ",", " ", "I", " ", "r", "e", "c", "o", "m", "m", "e", "n", "d", " ", "i", "t", ".", " ">>, 130), "/r/a/3",
         <<CommentKept>>)

\* No required term anywhere: rejected.
PostNoTerm ==
    Post("max", 20, <<"A", " ", "r", "e", "v", "i", "e", "w">>,
         Pad(<<"G", "r", "e", "a", "t", " ", "g", "a", "m", "e", ",", " ", "g", "o", "o", "d", " ", "s", "t", "o", "r", "y", ",", " ", "b", "a", "d", " ", "c", "o", "m", "b", "a", "t", ".", " ">>, 130), "/r/a/4",
         <<>>)

\* Two indicators only, in title and body together: rejected.
PostTwoMatches ==
    Post("ned", 10, <<"S", "h", "a", "d", "o", "w", "s">>,
         Pad(<<"T", "h", "e", " ", "s", "t", "e", "a", "l", "t", "h", " ", "i", "s", " ", "t", "e", "r", "r", "i", "b", "l", "e", ".", " ">>, 130), "",
         <<>>)

Posts == {PostKept, PostShortBody, PostTermInBody, PostNoTerm, PostTwoMatches}

\* The most posts of a search result.
MaxPosts == 2

Listings == UNION { [1..n -> Posts] : n \in 0..MaxPosts }

InitReddit ==
    /\ PipelineOff
    /\ ShardsIdle
    /\ RequestIdle
    /\ SteamIdle
    /\ ScrollIdle
    /\ RedditIdle

\* search_subreddit answers with a listing of posts, or make_request gave
\* None and the search has no results.
SearchSubreddit(result) ==
    /\ rd_pc = "idle"
    /\ rd_pc' = "posts"
    /\ rd_posts' = result
    /\ UNCHANGED <<rd_seen, all_results, csv_reddit>>
    /\ UNCHANGED <<pmiVars, shardVars, requestVars, steamVars, scrollVars>>

\* The body of  for post in posts  up to the request for the comments: the
\* post is parsed and its record, if one comes of it, appended.  When the post
\* has a permalink and its title holds a required term, main goes on to fetch
\* the comments, and otherwise to the next post.
ParsePost ==
    /\ rd_pc = "posts"
    /\ rd_posts # <<>>
    /\ LET post == Head(rd_posts)
           wanted == post.permalink # "" /\ contains_required_terms(post.title)
       IN  /\ all_results' = all_results \o parse_post(post)
           /\ rd_seen' = Append(rd_seen, [post |-> post, children |-> <<>>])
           /\ IF wanted
              THEN /\ rd_pc' = "comments"
                   /\ UNCHANGED rd_posts
              ELSE /\ rd_pc' = "posts"
                   /\ rd_posts' = Tail(rd_posts)
    /\ UNCHANGED csv_reddit
    /\ UNCHANGED <<pmiVars, shardVars, requestVars, steamVars, scrollVars>>

\* fetch_post_comments has returned after its waits, and the rest of the body
\* runs: the comments are extracted and their records appended;  fetched  is
\* FALSE when the answer was None or held no listing of comments.
FetchComments(fetched) ==
    /\ rd_pc = "comments"
    /\ LET post == Head(rd_posts)
           children == IF fetched THEN post.children ELSE <<>>
       IN  /\ all_results' = all_results \o extract_comments(children)
           /\ rd_seen' = [rd_seen EXCEPT ![Len(rd_seen)].children = children]
    /\ rd_posts' = Tail(rd_posts)
    /\ rd_pc' = "posts"
    /\ UNCHANGED csv_reddit
    /\ UNCHANGED <<pmiVars, shardVars, requestVars, steamVars, scrollVars>>

\* A KeyboardInterrupt while main waits in search_subreddit or in
\* fetch_post_comments (time.sleep and requests.get of make_request): nothing
\* catches it, main ends there and writes no file.
InterruptMain ==
    /\ rd_pc \in {"idle", "comments"}
    /\ rd_pc' = "interrupted"
    /\ UNCHANGED <<rd_posts, rd_seen, all_results, csv_reddit>>
    /\ UNCHANGED <<pmiVars, shardVars, requestVars, steamVars, scrollVars>>

\* df.drop_duplicates(subset=['comment']): the first row of each comment.
RECURSIVE drop_duplicates(_)
drop_duplicates(rows) ==
    IF rows = <<>> THEN <<>>
    ELSE LET front == drop_duplicates(SubSeq(rows, 1, Len(rows) - 1))
             last == rows[Len(rows)]
         IN  IF \E k \in 1..Len(front) : front[k].comment = last.comment
             THEN front
             ELSE Append(front, last)

\* df.sort_values('score', ascending=False): the sort is not stable, so rows
\* of equal score come in any order.
RECURSIVE sort_values(_)
sort_values(rows) ==
    IF rows = {} THEN { <<>> }
    ELSE UNION { { <<r>> \o rest : rest \in sort_values(rows \ {r}) } :
                 r \in {x \in rows : \A y \in rows : y.score <= x.score} }

\* After the last post: the results are deduplicated, sorted and written.
SaveResults ==
    /\ rd_pc = "posts"
    /\ rd_posts = <<>>
    /\ LET df_rows == drop_duplicates(all_results)
       IN  csv_reddit' \in sort_values({df_rows[k] : k \in 1..Len(df_rows)})
    /\ rd_pc' = "done"
    /\ UNCHANGED <<rd_posts, rd_seen, all_results>>
    /\ UNCHANGED <<pmiVars, shardVars, requestVars, steamVars, scrollVars>>

\* main in test mode: one subreddit, one keyword.
NextReddit ==
    \/ \E result \in Listings : SearchSubreddit(result)
    \/ ParsePost
    \/ \E fetched \in BOOLEAN : FetchComments(fetched)
    \/ InterruptMain
    \/ SaveResults

SpecReddit == InitReddit /\ [][NextReddit]_vars

Next ==
    \/ CleanData
    \/ Tokenize
    \/ RemoveStopwords
    \/ WordFrequency
    \/ CalculatePMI
    \/ FilterResults
    \/ TopPositive
    \/ TopNegative
    \/ SaveCsv

\* One execution of the script.
Spec == Init /\ [][Next]_vars

SpecFrequency == InitFrequency /\ [][Next]_vars

\* Two executions of the script on the same file.
NextTwice ==
    \/ Next
    \/ Rerun

SpecTwice == Init /\ [][NextTwice]_vars

----------------------------------------------------------------------------
(* Properties                                                              *)

\* pmi_df and the totals have been computed.
Scored == pc \in {"filter", "top_pos", "top_neg", "save", "done"}

\* Both ranked lists have been computed.
Ranked == pc \in {"save", "done"}

Words(rows) == {r.word : r \in rows}

RowOf(rows, w) == CHOOSE r \in rows : r.word = w

RECURSIVE SumContextCount(_)
SumContextCount(rows) ==
    IF rows = {} THEN 0
    ELSE LET r == CHOOSE x \in rows : TRUE
         IN  r.context_count + SumContextCount(rows \ {r})

Range(s) == {s[i] : i \in 1..Len(s)}

\* C1: after aggregation every row of the joined table has context_count >=
\* max(pos_count, neg_count), and every word of pos_counts or neg_counts has
\* a row in word_counts with at least that count.
C1_ContextCountDominates ==
    Scored =>
        /\ \A r \in pmi_df : r.context_count >= r.pos_count
                             /\ r.context_count >= r.neg_count
        /\ \A q \in pos_counts \cup neg_counts :
               \E r \in word_counts : r.word = q.word /\ r.count >= q.count

C1_Witness ==
    /\ Scored
    /\ \E r \in pmi_df : r.pos_count > 0
    /\ \E r \in pmi_df : r.neg_count > 0
    /\ \E r \in pmi_df : r.pos_count = 0 /\ r.neg_count = 0

\* C2: the context_count column sums to total_tokens, the number of tokens
\* the normalizer emitted for the whole corpus.
C2_ContextCountsSumToTotal ==
    Scored =>
        /\ SumContextCount(pmi_df) = total_tokens
        /\ total_tokens = Len(clean_words_df)

C2_Witness ==
    /\ Scored
    /\ Cardinality(pmi_df) >= 2
    /\ \E r \in pmi_df : r.context_count >= 2

\* C3: every token of the two ranked lists has context_count >= 5; a token
\* with context_count 5 that is not an ambiguous word passes the floor, and
\* appears in both lists when at most ten tokens pass.
C3_FrequencyFloor ==
    Ranked =>
        /\ \A r \in Range(top_pos) \cup Range(top_neg) : r.context_count >= 5
        /\ \A r \in pmi_df :
               (r.context_count = 5 /\ r.word \notin ambiguous_words) =>
                   /\ r \in pmi_filtered
                   /\ Cardinality(pmi_filtered) <= 10 =>
                          /\ r.word \in Words(Range(top_pos))
                          /\ r.word \in Words(Range(top_neg))

C3_Witness ==
    /\ pc = "done"
    /\ \E r \in pmi_df : r.context_count = 4 /\ r.word \notin ambiguous_words
                         /\ r.word \notin Words(Range(top_pos))
    /\ \E r \in Range(top_pos) : r.context_count = 5

\* C4: the second execution on the same file writes the same three files,
\* row for row, as the first.
C4_SameOutputTwice ==
    (run = "second" /\ pc = "done") =>
        /\ csv_positive = prev_positive
        /\ csv_negative = prev_negative
        /\ csv_word_freq = prev_word_freq

\* The index of the first occurrence of w in the token stream.
FirstIndex(w) == Min({i \in 1..Len(clean_words_df) : clean_words_df[i] = w})

\* The ordering of pmi_filtered under key that puts rows of equal score in
\* the order of their first occurrence in the token stream.
InputOrderRanking(key) ==
    CHOOSE s \in OrderBy(pmi_filtered, key) :
        \A i, j \in 1..Len(s) :
            (i < j /\ s[i].sentiment_score = s[j].sentiment_score)
                => FirstIndex(s[i].word) < FirstIndex(s[j].word)

StableTop(key) == Limit(SelectColumns(InputOrderRanking(key)), TopLimit)

\* C5: rows of equal sentiment_score stand in the ranked lists in input
\* order, so input order decides which of them fall inside the top 10.
C5_TiesInInputOrder ==
    Ranked =>
        /\ top_pos = StableTop("sentiment_score.desc")
        /\ top_neg = StableTop("sentiment_score.asc")

\* pmi_df as the script computes it with the two lexicons exchanged.
SwappedPmiDf ==
    LET pcs == LexiconCounts(clean_words_df, negative_words)
        ncs == LexiconCounts(clean_words_df, positive_words)
    IN  PmiDf(WordCounts(clean_words_df), pcs, ncs, CountRows(clean_words_df),
              TotalOf(pcs), TotalOf(ncs))

\* C6: with the lexicons exchanged every token gets the negated score.
C6_SwapNegatesScore ==
    pc = "filter" =>
        /\ Words(SwappedPmiDf) = Words(pmi_df)
        /\ \A r \in pmi_df :
               /\ r.sentiment_score # NullReal
               /\ RowOf(SwappedPmiDf, r.word).sentiment_score
                      = Negate(r.sentiment_score)

\* A scored corpus in which one total was defaulted to 1 and a token has a
\* score other than 0.
C6_Witness ==
    /\ pc = "filter"
    /\ pos_counts = {} /\ total_pos = 1
    /\ \E r \in pmi_df : ~IsDZero(r.sentiment_score)

\* C7: a corpus with no token ends with total_tokens = 0, P = Q = 1 and
\* three empty outputs.
C7_EmptyCorpus ==
    (pc = "done" /\ clean_words_df = <<>>) =>
        /\ total_tokens = 0
        /\ total_pos = 1
        /\ total_neg = 1
        /\ pmi_df = {}
        /\ csv_positive = <<>>
        /\ csv_negative = <<>>
        /\ csv_word_freq = <<>>

\* An execution that ends on comments of which no token survived.
C7_Witness ==
    /\ pc = "done"
    /\ df_clean # <<>>
    /\ clean_words_df = <<>>

C8Corpus == <<DocShortGood, DocShortBad>>

\* C8 as stated: six tokens, both ranked lists empty.
C8_SixTokens ==
    (df = C8Corpus /\ pc = "done") =>
        /\ total_tokens = 6
        /\ csv_positive = <<>>
        /\ csv_negative = <<>>

\* C8 amended: no token (both comments are at most 20 characters long and
\* are dropped by df_clean), both ranked lists empty.
C8_NoTokens ==
    (df = C8Corpus /\ pc = "done") =>
        /\ df_clean = <<>>
        /\ total_tokens = 0
        /\ csv_positive = <<>>
        /\ csv_negative = <<>>

C8_Witness == df = C8Corpus /\ pc = "done"

\* C9: pos_count is the token's own count if it is a positive seed word and
\* 0 otherwise, and likewise neg_count.
C9_SeedCounts ==
    Scored =>
        \A r \in pmi_df :
            /\ r.pos_count = IF r.word \in positive_words THEN r.context_count ELSE 0
            /\ r.neg_count = IF r.word \in negative_words THEN r.context_count ELSE 0

C9_Witness ==
    /\ Scored
    /\ \E r \in pmi_df : r.word \in positive_words
    /\ \E r \in pmi_df : r.word \in negative_words
    /\ \E r \in pmi_df : r.word \notin positive_words \cup negative_words

\* C10: no divisor of a scored row is zero: context_count, N, P and Q are
\* at least 1 and no column of the row is null; P and Q are at least 1 even
\* when no row is scored.
C10_NoDivisionByZero ==
    Scored =>
        /\ total_pos >= 1
        /\ total_neg >= 1
        /\ \A r \in pmi_df :
               /\ r.context_count >= 1
               /\ total_tokens >= 1
               /\ IsPositive(r.p_w) /\ IsPositive(r.p_pos) /\ IsPositive(r.p_neg)
               /\ NullReal \notin {r.p_w, r.p_pos, r.p_neg, r.pmi_positive,
                                   r.pmi_negative, r.sentiment_score}

\* Rows scored while the sum of the negative counts was absent.
C10_Witness ==
    /\ Scored
    /\ pmi_df # {}
    /\ neg_counts = {}
    /\ total_neg = 1

\* C11: on a row with neg_count = 0 the smoothed numerator is alpha/N > 0 and
\* the argument of log2 in pmi_negative, (alpha/N) / (p_w * p_neg), is a
\* strictly positive finite number, and likewise pmi_positive on a row with
\* pos_count = 0; neither logarithm nor the score of any row is null,
\* infinite or NaN.
C11_SmoothedLogArgumentPositive ==
    Scored =>
        \A r \in pmi_df :
            LET a_over_N == Divide(ToReal(alpha), ToReal(total_tokens))
                arg_neg  == Divide(a_over_N, Multiply(r.p_w, r.p_neg))
                arg_pos  == Divide(a_over_N, Multiply(r.p_w, r.p_pos))
            IN  /\ r.neg_count = 0 =>
                       /\ r.p_w_neg_s = a_over_N
                       /\ IsPositive(a_over_N)
                       /\ IsPositive(arg_neg) /\ IsFinite(arg_neg)
                /\ r.pos_count = 0 =>
                       /\ r.p_w_pos_s = a_over_N
                       /\ IsPositive(a_over_N)
                       /\ IsPositive(arg_pos) /\ IsFinite(arg_pos)
                /\ IsFinite(r.pmi_positive)
                /\ IsFinite(r.pmi_negative)
                /\ IsFinite(r.sentiment_score)

\* A token counted only as a positive seed word, beside one counted in
\* neither lexicon.
C11_Witness ==
    /\ Scored
    /\ \E r \in pmi_df : r.neg_count = 0 /\ r.pos_count > 0
    /\ \E r \in pmi_df : r.neg_count = 0 /\ r.pos_count = 0

\* C12: the positive list holds at most 10 rows in non-increasing score
\* order, the negative list at most 10 rows in non-decreasing order, and no
\* filtered token left out of a list would sort strictly before a row of it.
C12_TopTenRanking ==
    Ranked =>
        /\ Len(top_pos) <= 10 /\ Len(top_neg) <= 10
        /\ \A i, j \in 1..Len(top_pos) :
               i < j => ~ScoreLess(top_pos[i].sentiment_score, top_pos[j].sentiment_score)
        /\ \A i, j \in 1..Len(top_neg) :
               i < j => ~ScoreLess(top_neg[j].sentiment_score, top_neg[i].sentiment_score)
        /\ \A q \in pmi_filtered : \A i \in 1..Len(top_pos) :
               q.word \notin Words(Range(top_pos))
                   => ~ScoreLess(top_pos[i].sentiment_score, q.sentiment_score)
        /\ \A q \in pmi_filtered : \A i \in 1..Len(top_neg) :
               q.word \notin Words(Range(top_neg))
                   => ~ScoreLess(q.sentiment_score, top_neg[i].sentiment_score)

\* More than ten filtered tokens, ten of them listed, with differing scores.
C12_Witness ==
    /\ Ranked
    /\ Cardinality(pmi_filtered) > 10
    /\ Len(top_pos) = 10 /\ Len(top_neg) = 10
    /\ top_pos[1].sentiment_score # top_pos[10].sentiment_score
    /\ \E q \in pmi_filtered : q.word \notin Words(Range(top_pos))

\* C13: no ambiguous word stands in either ranked list.
C13_NoAmbiguousWordRanked ==
    Ranked =>
        \A r \in Range(top_pos) \cup Range(top_neg) : r.word \notin ambiguous_words

\* An ambiguous word that passed the frequency floor, left out of non-empty
\* lists.
C13_Witness ==
    /\ pc = "done"
    /\ \E r \in pmi_df : r.word \in ambiguous_words /\ r.context_count >= 5
    /\ top_pos # <<>> /\ top_neg # <<>>

\* The token stream has been computed.
Normalized == pc \in {"pmi", "filter", "top_pos", "top_neg", "save", "done"}

\* w holds the letters of pat, in order, from position i on.
OccursAt(w, pat, i) ==
    /\ i + Len(pat) - 1 <= Len(w)
    /\ \A k \in 1..Len(pat) : w[i + k - 1] = pat[k]

\* C14: every token of the stream is made of lowercase letters only, is at
\* least 3 long, is neither a stop word nor a custom noise word, and holds
\* neither "http" nor "www".
C14_NormalizedTokens ==
    Normalized =>
        \A w \in Range(clean_words_df) :
            /\ \A i \in 1..Len(w) : w[i] \in LowerLetters
            /\ Len(w) >= 3
            /\ w \notin EnglishStopWords
            /\ w \notin custom_noise_words
            /\ \A i \in 1..Len(w) :
                   /\ ~OccursAt(w, <<"h","t","t","p">>, i)
                   /\ ~OccursAt(w, <<"w","w","w">>, i)

\* Tokens came out of a comment that held capitals, digits, punctuation, a
\* form feed, a newline, a vertical tab and a URL: the form feed at its head
\* left an empty raw token, and a raw token holding "www" was dropped.
C14_Witness ==
    /\ Normalized
    /\ clean_words_df # <<>>
    /\ \E i \in 1..Len(df_clean) :
           /\ \E k \in 1..Len(df_clean[i]) : df_clean[i][k] \in UpperLetters
           /\ df_clean[i][1] = "\f"
           /\ tokens[i][1] = <<>>
           /\ \E k \in 1..Len(df_clean[i]) : df_clean[i][k] = "\n"
           /\ \E k \in 1..Len(df_clean[i]) : df_clean[i][k] = "U+000B"
           /\ \E k \in 1..Len(df_clean[i]) : df_clean[i][k] \in {"2", "?", "/"}
           /\ \E w \in Range(tokens[i]) :
                  /\ Len(w) > 3
                  /\ \E k \in 1..Len(w) : OccursAt(w, <<"w","w","w">>, k)
                  /\ w \notin Range(clean_words_df)
           /\ \E w \in Range(tokens[i]) : w \in Range(clean_words_df)

\* The distinct tokens of the stream.
DistinctWords == Range(clean_words_df)

\* C15: pmi_df holds exactly one row per distinct token of the stream, the
\* same words as word_counts, each with its context_count (at least 1).
C15_OneRecordPerToken ==
    Scored =>
        /\ Words(pmi_df) = Words(word_counts)
        /\ Words(pmi_df) = DistinctWords
        /\ Cardinality(pmi_df) = Cardinality(DistinctWords)
        /\ \A r \in pmi_df :
               /\ r.context_count >= 1
               /\ \E q \in word_counts : q.word = r.word /\ q.count = r.context_count

\* Rows matched by the first join, rows matched by the second and rows
\* matched by neither.
C15_Witness ==
    /\ Scored
    /\ \E r \in word_counts : r.word \in Words(pos_counts)
    /\ \E r \in word_counts : r.word \in Words(neg_counts)
    /\ \E r \in word_counts : r.word \notin Words(pos_counts) \cup Words(neg_counts)
    /\ Cardinality(pmi_df) >= 3

\* The number of times w stands in the token stream.
Occurrences(w) == Cardinality({i \in 1..Len(clean_words_df) : clean_words_df[i] = w})

\* C17: the saved frequency table holds at most 100 rows in non-increasing
\* count order, each a distinct token of the stream with its number of
\* occurrences; when the stream has at most 100 distinct tokens all of them
\* are listed, whatever their count and whether ambiguous or not, and when
\* it has more the table holds 100 rows and no token left out occurs more
\* often than a listed one.
C17_WordFrequencyTable ==
    pc = "done" =>
        /\ Len(csv_word_freq) <= 100
        /\ \A i, j \in 1..Len(csv_word_freq) :
               i < j => /\ csv_word_freq[i].count >= csv_word_freq[j].count
                        /\ csv_word_freq[i].word # csv_word_freq[j].word
        /\ \A r \in Range(csv_word_freq) :
               r.word \in DistinctWords /\ r.count = Occurrences(r.word)
        /\ Cardinality(DistinctWords) <= 100
               => Words(Range(csv_word_freq)) = DistinctWords
        /\ Cardinality(DistinctWords) > 100
               => /\ Len(csv_word_freq) = 100
                  /\ \A w \in DistinctWords \ Words(Range(csv_word_freq)) :
                         Occurrences(w) <= csv_word_freq[100].count

\* A stream of more than 100 distinct tokens: the table is cut at 100 rows
\* and a token is left out, and it lists a token below the frequency floor
\* and an ambiguous word, neither of which is in a ranked list.
C17_Witness ==
    /\ pc = "done"
    /\ Cardinality(DistinctWords) > 100
    /\ Len(csv_word_freq) = 100
    /\ DistinctWords \ Words(Range(csv_word_freq)) # {}
    /\ \E r \in Range(csv_word_freq) :
           r.count < 5 /\ r.word \notin Words(Range(csv_positive))
    /\ \E r \in Range(csv_word_freq) :
           /\ r.word \in ambiguous_words
           /\ r.word \notin Words(Range(csv_positive)) \cup Words(Range(csv_negative))
    /\ csv_positive # <<>>

\* log2((pos_count + alpha) * Q / ((neg_count + alpha) * P)), the quotient
\* and the logarithm each rounded once.
ScoreFromCounts(p, n, P, Q) ==
    Log2(Divide(ToReal((p + alpha) * Q), ToReal((n + alpha) * P)))

\* 2^-40
Tolerance == [s |-> 0, e |-> -40, m |-> <<0, 0, 0, 1024>>]

\* |x - y| < 2^-40
Near(x, y) == MagLess(fsub(x, y), Tolerance)

\* C18 as stated: the score of a row is fixed by its pos_count, its neg_count
\* and the totals P and Q alone, so rows that agree on both counts, in
\* particular all tokens of neither lexicon, get the same score whatever
\* their context_count.
C18_ScoreFromCountsAlone ==
    Scored =>
        \A r, q \in pmi_df :
            (r.pos_count = q.pos_count /\ r.neg_count = q.neg_count)
                => r.sentiment_score = q.sentiment_score

\* C18 amended: the score of a row is log2((pos_count+alpha)*Q /
\* ((neg_count+alpha)*P)) to within 2^-40, so the scores of rows that agree
\* on pos_count and neg_count differ by less than 2^-40 whatever their
\* context_count, and rows that agree on context_count as well get the same
\* score.
C18_ScoreFromCountsUpToRounding ==
    Scored =>
        /\ \A r \in pmi_df :
               Near(r.sentiment_score,
                    ScoreFromCounts(r.pos_count, r.neg_count, total_pos, total_neg))
        /\ \A r, q \in pmi_df :
               (r.pos_count = q.pos_count /\ r.neg_count = q.neg_count) =>
                   /\ Near(r.sentiment_score, q.sentiment_score)
                   /\ r.context_count = q.context_count
                          => r.sentiment_score = q.sentiment_score

\* Two tokens of neither lexicon with different context_count and scores
\* that differ, beside two with the same context_count.
C18_Witness ==
    /\ Scored
    /\ \E r, q \in pmi_df :
           /\ r.pos_count = 0 /\ r.neg_count = 0
           /\ q.pos_count = 0 /\ q.neg_count = 0
           /\ r.context_count # q.context_count
           /\ r.sentiment_score # q.sentiment_score
    /\ \E r, q \in pmi_df :
           /\ r.word # q.word
           /\ r.pos_count = q.pos_count /\ r.neg_count = q.neg_count
           /\ r.context_count = q.context_count

\* C19: every positive seed word scored has a strictly greater score than
\* every token of neither lexicon, every negative seed word a strictly
\* smaller one, and no row has both pos_count > 0 and neg_count > 0.
C19_SeedsApartFromOthers ==
    Scored =>
        /\ \A r \in pmi_df : ~(r.pos_count > 0 /\ r.neg_count > 0)
        /\ \A r, q \in pmi_df :
               (q.word \notin positive_words \cup negative_words) =>
                   /\ r.word \in positive_words
                          => ScoreLess(q.sentiment_score, r.sentiment_score)
                   /\ r.word \in negative_words
                          => ScoreLess(r.sentiment_score, q.sentiment_score)

C19_Witness ==
    /\ Scored
    /\ \E r \in pmi_df : r.word \in positive_words /\ r.pos_count > 0
    /\ \E r \in pmi_df : r.word \in negative_words /\ r.neg_count > 0
    /\ \E r \in pmi_df : r.word \notin positive_words \cup negative_words

\* Every shard has been counted and merged.
AllMerged == {merged[k] : k \in 1..Len(merged)} = 1..Len(shards)

\* The token stream of a single pass over the whole corpus.
WholeStream == WholeStreamOf[shards]

\* A table holds exactly the words of the stream that belong to a class, each
\* with its number of occurrences in the stream.
IsCountOf(table, words, class) ==
    /\ {r.word : r \in table} = {words[i] : i \in 1..Len(words)} \cap class
    /\ \A r \in table :
         r.count = Cardinality({i \in 1..Len(words) : words[i] = r.word})
    /\ \A r1, r2 \in table : r1.word = r2.word => r1 = r2

\* C16: once every shard's partial tables have been merged, in whatever order
\* the workers counted and merged, the merged context, positive and negative
\* tables are the tables of one sequential pass over the whole corpus.
C16_ShardedCountsEqualSequential ==
    AllMerged =>
        LET words == WholeStream
        IN  /\ IsCountOf(acc.context, words, {words[i] : i \in 1..Len(words)})
            /\ IsCountOf(acc.pos, words, positive_words)
            /\ IsCountOf(acc.neg, words, negative_words)

\* Three shards, two of them holding the same praise, have been merged, the
\* last shard first: "good" has 5 occurrences in each of the two.
C16_Witness ==
    /\ Len(shards) = 3
    /\ shards[1] = <<DocPraise>>
    /\ shards[2] = <<DocComplaint, DocReview>>
    /\ shards[3] = <<DocReview, DocPraise, DocShortGood>>
    /\ merged = <<3, 1, 2>>
    /\ CountIn(acc.pos, <<"g", "o", "o", "d">>) = 10
    /\ acc.neg # {}

\* The positions of the HTTP requests among the events of the call.
Gets == {i \in 1..Len(rq_events) : rq_events[i].op = "get"}

\* The answer to the last HTTP request.
LastResponse == rq_events[Len(rq_events)].arg

\* What holds of a call of make_request at every moment.
RequestBounded ==
    /\ retry_count <= MAX_RETRIES
    /\ Cardinality(Gets) <= 4
    /\ Cardinality(Gets) <= retry_count + 1
    /\ \A i \in Gets, j \in Gets :
         (rq_events[i].arg = "rate_limited" /\ i < j) =>
             /\ rq_events[i + 1].op = "sleep"
             /\ rq_events[i + 1].arg = <<RETRY_WAIT, RETRY_WAIT>>
    /\ rq_pc = "returned" =>
         /\ rq_result \in {"json", "None"}
         /\ rq_result = "json" <=> LastResponse = "ok"
         /\ LastResponse \in {"rate_limited", "timeout"} =>
              /\ retry_count = MAX_RETRIES
              /\ Cardinality(Gets) = MAX_RETRIES + 1
    /\ rq_pc = "raised" => rq_result \notin RequestErrors

\* C20: a call of make_request ends; it makes at most 4 HTTP requests, the
\* retries after 429 and after a timeout counted together up to MAX_RETRIES;
\* a 429 that is retried is followed by a sleep of RETRY_WAIT seconds; the
\* call returns None when the retries are used up or on any other error, and
\* no request error leaves it.
C20_MakeRequestTerminates ==
    /\ [] RequestBounded
    /\ (rq_pc = "sleep") ~> (rq_pc \in {"returned", "raised"})

\* A call has returned None after 4 HTTP requests, retried after a timeout
\* and after 429 and rate limited at the end.
C20_Witness ==
    /\ rq_pc = "returned"
    /\ rq_result = "None"
    /\ Cardinality(Gets) = 4
    /\ retry_count = MAX_RETRIES
    /\ \E i \in Gets : rq_events[i].arg = "timeout"
    /\ \E i \in Gets : /\ rq_events[i].arg = "rate_limited"
                       /\ i < Len(rq_events)
    /\ LastResponse = "rate_limited"

\* The rows of the reviews the server has sent, in the order it sent them.
RowsServed == [i \in 1..st_served |-> ReviewRow(ServerReview(i))]

\* C21: no page is requested more than 5 times, and when 5 requests for a
\* page have failed the call has returned, not raised, with the rows of all
\* the reviews of the earlier pages in the order they were fetched.
C21_FivePerPageKeepsEarlierPages ==
    /\ \A p \in 1..Len(st_requests) : st_requests[p] <= 5
    /\ st_failures >= 5 =>
         /\ st_pc = "returned"
         /\ all_reviews = RowsServed

\* The second page has failed 5 times after a first page of two reviews.
C21_Witness ==
    /\ st_pc = "returned"
    /\ page = 2
    /\ st_requests = <<1, 5>>
    /\ st_failures = 5
    /\ attempt = 4
    /\ Len(all_reviews) = 2
    /\ all_reviews[1].date =
         <<"2", "7", " ", "M", "a", "r", "c", "h", " ", "2", "0", "2", "4">>
    /\ all_reviews[2].date = <<"3", "1", " ", "D", "e", "c", "e", "m", "b", "e", "r",
                               " ", "1", "9", "6", "9">>
    /\ all_reviews[1].comment = <<"o", "k", " ", "g", "o">>
    /\ all_reviews[2].recommended = "Recommended"

\* The last answered page ends the pagination.
LastPageEnds == data.parsed /\ (data.reviews = <<>> \/ data.cursor \in {"None", ""})

\* C22: the call ends; once a page with no reviews or an answer without a
\* cursor has come, or 5 requests in a row have failed, the call has
\* returned, so no further page is requested.
C22_PaginationTerminates ==
    /\ [] ((LastPageEnds \/ st_failures >= 5) => st_pc = "returned")
    /\ (st_pc = "attempt") ~> (st_pc \in {"returned", "raised"})

\* Three pages of one review each, the third without a cursor, after which
\* the call has returned with the server's three reviews, the third with a
\* timestamp that is no number and so without a date.
C22_Witness ==
    /\ st_pc = "returned"
    /\ page = 3
    /\ st_total = 3
    /\ Len(all_reviews) = 3
    /\ all_reviews[3].date = <<>>
    /\ data.reviews # <<>>
    /\ data.cursor = "None"

\* The latest scrolls in a row on which the number of loaded threads was the
\* one seen before the scroll, the page counting as showing 0 threads before
\* the first scroll.
UnchangedRun ==
    IF scrolls >= 1 /\ sc_same = scrolls - 1 /\ comments_len = 0
    THEN sc_same + 1
    ELSE sc_same

\* C23 as stated: the loop breaks exactly when the latest 30 scrolls have each
\* observed the number of the scroll before, and never scrolls more than
\* max_scroll times.
C23_ThirtyAfterScrollBefore ==
    /\ scrolls <= max_scroll
    /\ sc_stop = "break" => sc_same >= 30
    /\ sc_pc = "scroll" => sc_same < 30

\* C23: the loop never scrolls more than max_scroll times, and it breaks on
\* the scroll that makes 30 scrolls in a row without a change of the number
\* of loaded threads, the number before the first scroll being taken as 0;
\* the counter is that run, so any scroll with a change resets it to 0.
C23_ThirtyUnchangedFromZero ==
    /\ scrolls <= max_scroll
    /\ stagnant = UnchangedRun
    /\ sc_stop = "break" => UnchangedRun = 30
    /\ sc_pc = "scroll" => UnchangedRun < 30

\* A page that never shows a comment thread: the loop has stopped on scroll
\* 30, of which only 29 followed another scroll.
C23_Witness ==
    /\ sc_stop = "break"
    /\ scrolls = 30
    /\ comments_len = 0
    /\ sc_same = 29

\* Every comment of a listing, with the replies below it at any depth.
RECURSIVE CommentsBelow(_)
CommentsBelow(children) ==
    IF children = <<>> THEN {}
    ELSE {Head(children)} \cup CommentsBelow(Head(children).replies)
                          \cup CommentsBelow(Tail(children))

\* The posts that main has handled and the comments it has been given.
PostsSeen == {rd_seen[k].post : k \in 1..Len(rd_seen)}

CommentsSeen == UNION {CommentsBelow(rd_seen[k].children) : k \in 1..Len(rd_seen)}

\* The three filters, on a text and the body it belongs to.
PassesFilters(text, body) ==
    /\ \E term \in REQUIRED_TERMS : Contains(LowerCase(text), term)
    /\ Len(body) >= 100
    /\ Cardinality({ind \in review_indicators : Contains(LowerCase(text), ind)}) >= 3

PostPasses(p) == PassesFilters(p.title \o <<" ">> \o p.selftext, p.selftext)

CommentPasses(c) == c.body # None /\ PassesFilters(c.body, c.body)

\* The records collected and the records written.
RecordsKept ==
    {all_results[k] : k \in 1..Len(all_results)} \cup
    {csv_reddit[k] : k \in 1..Len(csv_reddit)}

\* C24: every record collected or written comes from a post or comment that
\* holds a required term in any case, has a body of at least 100 characters
\* and matches at least 3 review indicators; no post or comment that fails
\* one of the three has a record (authors tell the items apart).
C24_SavedRecordsPassedFilters ==
    /\ \A r \in RecordsKept :
         \/ /\ r.type = "post"
            /\ \E p \in PostsSeen : p.author = r.user /\ PostPasses(p)
         \/ /\ r.type = "comment"
            /\ \E c \in CommentsSeen : c.author = r.user /\ CommentPasses(c)
    /\ \A p \in PostsSeen : ~PostPasses(p) =>
         ~\E r \in RecordsKept : r.type = "post" /\ r.user = p.author
    /\ \A c \in CommentsSeen : ~CommentPasses(c) =>
         ~\E r \in RecordsKept : r.type = "comment" /\ r.user = c.author

\* A kept post and a post with a body of 99 characters have been handled with
\* their comments: the file holds the post, without the form feed that ended
\* it, and the comments that pass, by score.
C24_Witness ==
    /\ rd_pc = "done"
    /\ Len(rd_seen) = 2
    /\ rd_seen[1] = [post |-> PostKept, children |-> PostKept.children]
    /\ rd_seen[2] = [post |-> PostShortBody, children |-> PostShortBody.children]
    /\ Len(csv_reddit) = 5
    /\ csv_reddit[1].user = "joe"
    /\ Len(csv_reddit[1].comment) = 119
    /\ csv_reddit[1].comment[119] = "x"
    /\ csv_reddit[2].user = "ann"
    /\ csv_reddit[3].user = "kay"
    /\ csv_reddit[4].user = "dan"
    /\ csv_reddit[5].user = "fay"
====
